---- MODULE Spec2Model ----
(***************************************************************************)
(* Bronze -> silver -> gold batch pipeline for bank transactions.          *)
(*                                                                         *)
(* The module models                                                       *)
(*   - transformDataSilver / mappingData   (src/transformDataSilver.py)    *)
(*   - inserDataTransaction                (src/transformDataSilver.py)    *)
(*   - PipelineMonitor                     (src/pipeline_config.py)        *)
(*   - PipelineOrchestrator                (src/pipeline_orchestrator.py)  *)
(*   - transformDataGold / insertDataGold  (src/transformDataGold.py)      *)
(*   - PipelineConfig (anomaly_detection)  (src/pipeline_config.py)        *)
(*   - run_pipeline, main (watch mode)     (src/run_pipeline_complete.py)  *)
(*                                                                         *)
(* Representation of Python values                                         *)
(*   - a subheader string f"{bank} - {name}" is the record                 *)
(*     [bank |-> .., name |-> ..]; str.split(" - ") gives the list of its  *)
(*     two parts;                                                          *)
(*   - a str and a list are tagged records, so that == between them is     *)
(*     the comparison Python makes (values of different types are never    *)
(*     equal);                                                             *)
(*   - trx_date is a day number and trx_time the second of the day;        *)
(*     datetime.combine(d, t) is the second d * 86400 + t;                 *)
(*   - "TRX:" + id is the pair <<"TRX:", id>>;                             *)
(*   - wall-clock fields (created_date, start_time, durations) are left    *)
(*     out: no modelled decision reads them.                               *)
(***************************************************************************)
EXTENDS Integers, Sequences, FiniteSets, TLC

VARIABLES
    list_nasabah,   \* bronze.data_nasabah_raw: the customer directory
    list_trx,       \* bronze.transactions_raw: the raw transactions of the batch
    list_criteria,  \* silver.criteria: the criteria catalog
    transformed,    \* outcome of the last transformDataSilver call
    phase,          \* "input" before the transform has run, "done" after
    silver_transactions,    \* the rows of silver.transactions, in append order
    inserted,       \* the last inserDataTransaction call: arguments and result
    offered         \* history: the code_transaction values offered so far by
                    \* calls whose lookup succeeded: .ok by the calls whose
                    \* append did not raise, .write_error by the others

VARIABLES
    cfg,                \* config.config: the "enabled" flag of each layer
    gold,               \* the rows of the three gold tables, in append order
    current_pipeline,   \* monitor.current_pipeline
    metrics_history,    \* monitor.metrics_history
    metrics_file,       \* the entries of the metrics file
    pc,                 \* where run_complete_pipeline stands
    orch,               \* the orchestrator: pipeline_id, run number and the
                        \* lists process_bronze_layer returned
    returned,           \* what the last run_complete_pipeline returned
    uuid_count,         \* the uuid4 values drawn so far
    outcome,            \* history: what the store did in each stage of the
                        \* current run ("raise" when the stage body raised
                        \* with the store working), "none" for a stage that
                        \* has not run
    api,                \* the last direct call of a PipelineMonitor method:
                        \* its name, arguments and whether it raised, with
                        \* the number of calls and of pipelines started so
                        \* far, and the pipeline_id of the pipelines whose
                        \* save_metrics failed
    runner,             \* the last run_pipeline(mode, dry_run=True) call
                        \* since the last run_complete_pipeline call
    trace               \* history: the events of the current run in order:
                        \* validation returned, a stage started, a stage
                        \* returned, each with its success flag

tvars == <<list_nasabah, list_trx, list_criteria, transformed, phase>>

wvars == <<silver_transactions, inserted, offered>>

pvars == <<cfg, gold, current_pipeline, metrics_history, metrics_file, pc, orch,
           returned, uuid_count, outcome, api, runner, trace>>

VARIABLES
    writers,            \* the inserDataTransaction calls of concurrently
                        \* running pipelines: where each call stands, its
                        \* candidate rows and the keys its lookup returned
    killed,             \* history: the pipeline_id of the runs whose process
                        \* was terminated in flight
    watch,              \* the arguments main was started with in watch mode
                        \* (mode "none" before main has parsed them)
    anomaly_detection   \* config.config["silver"]["anomaly_detection"]

cvars == <<writers, killed, watch, anomaly_detection>>

vars == <<tvars, wvars, pvars, cvars>>

-----------------------------------------------------------------------------
(* Bounds of the model *)

MaxStatusBatch == 2     \* transactions per batch, status derivation runs
MaxBatch == 3           \* transactions per batch, repetition-pattern runs
MaxKeys == 2            \* raw transaction ids offered to the silver writer
MaxBronze == 2          \* rows of bronze.transactions_raw, pipeline runs
MaxRuns == 2            \* calls of run_complete_pipeline
MaxMonitorCalls == 5     \* direct calls of PipelineMonitor methods
MaxFinalized == 101      \* pipelines finalized one after the other

-----------------------------------------------------------------------------
(* Python helpers *)

PyStr(s) == [tag |-> "str", val |-> s]
PyList(l) == [tag |-> "list", val |-> l]

\* a == b on Python values: a list never equals a str
PyEq(a, b) == a.tag = b.tag /\ a.val = b.val

\* headerInfo.split(" - ") on the string "<bank> - <name>"
Split(headerInfo) == PyList(<<headerInfo.bank, headerInfo.name>>)

\* mutant of FirstNasabah: next(..., list_nasabah[0]), a default in place of
\* StopIteration
FirstNasabahOrDefault(nasabahs, account) ==
    IF \E i \in 1..Len(nasabahs) : nasabahs[i].account_number = account
    THEN CHOOSE i \in 1..Len(nasabahs) :
            /\ nasabahs[i].account_number = account
            /\ \A j \in 1..(i - 1) : nasabahs[j].account_number # account
    ELSE 1

\* next(n for n in list_nasabah if n["account_number"] == account): the index
\* of the first match, 0 for StopIteration
FirstNasabah(nasabahs, account) ==
    IF \E i \in 1..Len(nasabahs) : nasabahs[i].account_number = account
    THEN CHOOSE i \in 1..Len(nasabahs) :
            /\ nasabahs[i].account_number = account
            /\ \A j \in 1..(i - 1) : nasabahs[j].account_number # account
    ELSE 0

\* next(c for c in list_criteria if c["code"] == code): the index of the first
\* match, 0 for StopIteration
FirstCriteria(criterias, code) ==
    IF \E i \in 1..Len(criterias) : criterias[i].code = code
    THEN CHOOSE i \in 1..Len(criterias) :
            /\ criterias[i].code = code
            /\ \A j \in 1..(i - 1) : criterias[j].code # code
    ELSE 0

\* datetime.datetime.combine(trx_date, trx_time), in seconds
Combine(trx_date, trx_time) == trx_date * 86400 + trx_time

-----------------------------------------------------------------------------
(* transformDataSilver: status derivation, first loop *)

\* mutant of IsOpen: rejects CLOSED instead of accepting OPENED and BLOCKED
IsOpenUnlessClosed(nasabah) == nasabah.status # "CLOSED"

\* nasabah["status"] == "OPENED" or nasabah["status"] == "BLOCKED"
IsOpen(nasabah) == nasabah.status = "OPENED" \/ nasabah.status = "BLOCKED"

\* isBni = bankTo == "BNI", bankTo being the list headerInfo.split(" - ")
IsBni(trx) == PyEq(Split(trx.subheader), PyStr("BNI"))

\* The body of the first loop for one transaction: a record with raised = TRUE
\* when a next(...) finds nothing, else the transaction with status_trx,
\* criteria_anomali and description_anomali set.
ClassifyStatus(trx, nasabahs, criterias) ==
    LET iFrom == FirstNasabah(nasabahs, trx.account_number)
        iTo == FirstNasabah(nasabahs, trx.detail_information)
        iNormal == FirstCriteria(criterias, "0")
    IN  IF iFrom = 0 THEN [raised |-> TRUE]
        ELSE IF IsBni(trx) /\ iTo = 0 THEN [raised |-> TRUE]
        ELSE IF iNormal = 0 THEN [raised |-> TRUE]
        ELSE LET isOpenNasabahFrom == IsOpen(nasabahs[iFrom])
                 status == IF IsBni(trx)
                           THEN IF isOpenNasabahFrom /\ IsOpen(nasabahs[iTo])
                                THEN "SUCCESS" ELSE "FAILED"
                           ELSE IF isOpenNasabahFrom THEN "SUCCESS" ELSE "FAILED"
             IN [raised |-> FALSE,
                 trx |-> [id |-> trx.id,
                          account_number |-> trx.account_number,
                          detail_information |-> trx.detail_information,
                          subheader |-> trx.subheader,
                          amount |-> trx.amount,
                          trx_date |-> trx.trx_date,
                          trx_time |-> trx.trx_time,
                          status_trx |-> status,
                          criteria_anomali |-> "0",
                          description_anomali |-> criterias[iNormal].description]]

-----------------------------------------------------------------------------
(* transformDataSilver: the first loop over list_trx *)

\* rows classified so far, or raised = TRUE as soon as one transaction raises
RECURSIVE ClassifyAll(_, _, _, _)
ClassifyAll(trxs, nasabahs, criterias, i) ==
    IF i > Len(trxs) THEN [raised |-> FALSE, rows |-> <<>>]
    ELSE LET one == ClassifyStatus(trxs[i], nasabahs, criterias)
         IN  IF one.raised THEN [raised |-> TRUE, rows |-> <<>>]
             ELSE LET rest == ClassifyAll(trxs, nasabahs, criterias, i + 1)
                  IN  IF rest.raised THEN rest
                      ELSE [raised |-> FALSE, rows |-> <<one.trx>> \o rest.rows]

\* key = (trx['account_number'], trx['detail_information'])
GroupKey(trx) == <<trx.account_number, trx.detail_information>>

\* grouped_data[key]: the positions in list_trx of the transactions of the
\* group, in the order they were appended
GroupedData(rows, key) ==
    SelectSeq([i \in 1..Len(rows) |-> i], LAMBDA i : GroupKey(rows[i]) = key)

\* grouped_data.items(): the keys in the order of their first insertion
RECURSIVE GroupKeys(_, _)
GroupKeys(rows, i) ==
    IF i > Len(rows) THEN <<>>
    ELSE IF \E j \in 1..(i - 1) : GroupKey(rows[j]) = GroupKey(rows[i])
         THEN GroupKeys(rows, i + 1)
         ELSE <<GroupKey(rows[i])>> \o GroupKeys(rows, i + 1)

-----------------------------------------------------------------------------
(* transformDataSilver: the second loop, one group at a time *)

\* (x['trx_date'], x['trx_time']) <= (y['trx_date'], y['trx_time']) on tuples
SortKeyLeq(x, y) ==
    \/ x.trx_date < y.trx_date
    \/ x.trx_date = y.trx_date /\ x.trx_time <= y.trx_time

\* one step of a stable sort: i goes after every element whose key is <= its own
RECURSIVE InsertSorted(_, _, _)
InsertSorted(rows, sorted, i) ==
    IF sorted = <<>> THEN <<i>>
    ELSE IF SortKeyLeq(rows[Head(sorted)], rows[i])
         THEN <<Head(sorted)>> \o InsertSorted(rows, Tail(sorted), i)
         ELSE <<i>> \o sorted

\* mutant of SortGroup: the group is scanned in input order, unsorted
SortGroupSkipped(rows, group) == group

\* transactions.sort(key=lambda x: (x['trx_date'], x['trx_time'])): list.sort
\* is stable
RECURSIVE SortGroup(_, _)
SortGroup(rows, group) ==
    IF group = <<>> THEN <<>>
    ELSE InsertSorted(rows, SortGroup(rows, SubSeq(group, 1, Len(group) - 1)),
                      group[Len(group)])

TimeThreshold == 3600

\* mutant of InWindow: the threshold taken as minutes
InWindowMinutes(time_dif) == time_dif < TimeThreshold * 60

\* mutant of InWindow: the bound is read from the configuration
InWindowConfigured(time_dif) == time_dif < anomaly_detection.time_threshold_seconds

\* time_dif < 3600
InWindow(time_dif) == time_dif < TimeThreshold

\* mutant of AmountIncreases: >= in place of >
AmountNotLess(trx1, trx2) == trx2.amount >= trx1.amount

\* trx2['amount'] > trx1['amount']
AmountIncreases(trx1, trx2) == trx2.amount > trx1.amount

\* trx['criteria_anomali'] = '1'; trx['description_anomali'] = description
Flag(trx, description) ==
    [trx EXCEPT !.criteria_anomali = "1", !.description_anomali = description]

\* for i in range(len(transactions) - 1): the adjacent pairs from position i on
RECURSIVE ScanPairs(_, _, _, _)
ScanPairs(rows, transactions, criterias, i) ==
    IF i > Len(transactions) - 1 THEN [raised |-> FALSE, rows |-> rows]
    ELSE LET p1 == transactions[i]
             p2 == transactions[i + 1]
             dt1 == Combine(rows[p1].trx_date, rows[p1].trx_time)
             dt2 == Combine(rows[p2].trx_date, rows[p2].trx_time)
             time_dif == dt2 - dt1
         IN  IF InWindow(time_dif) /\ AmountIncreases(rows[p1], rows[p2])
             THEN LET iCrit == FirstCriteria(criterias, "1")
                  IN  IF iCrit = 0 THEN [raised |-> TRUE, rows |-> <<>>]
                      ELSE ScanPairs(
                             [rows EXCEPT
                                ![p1] = Flag(rows[p1], criterias[iCrit].description),
                                ![p2] = Flag(rows[p2], criterias[iCrit].description)],
                             transactions, criterias, i + 1)
             ELSE ScanPairs(rows, transactions, criterias, i + 1)

\* for key, transactions in grouped_data.items(): from the k-th key on
RECURSIVE ScanGroups(_, _, _, _)
ScanGroups(rows, keys, criterias, k) ==
    IF k > Len(keys) THEN [raised |-> FALSE, rows |-> rows]
    ELSE LET transactions == SortGroup(rows, GroupedData(rows, keys[k]))
             scanned == ScanPairs(rows, transactions, criterias, 1)
         IN  IF scanned.raised THEN scanned
             ELSE ScanGroups(scanned.rows, keys, criterias, k + 1)

-----------------------------------------------------------------------------
(* mappingData and transformDataSilver *)

\* "TRX:" + trx['id']
CodeTransaction(id) == <<"TRX:", id>>

\* mutant of MapRow: code_transaction is derived from the row's own id
MapRowCodedById(trx, uuid) ==
    [id |-> uuid,
     account_num |-> trx.account_number,
     amount |-> trx.amount,
     account_to |-> trx.detail_information,
     narrative |-> <<"ke", trx.subheader>>,
     status_trx |-> trx.status_trx,
     trx_date |-> trx.trx_date,
     trx_time |-> trx.trx_time,
     criteria_anomali |-> trx.criteria_anomali,
     description_anomali |-> trx.description_anomali,
     code_transaction |-> CodeTransaction(uuid),
     created_by |-> "SYSTEM",
     updated_by |-> "SYSTEM"]

\* One silver row. uuid is the value uuid.uuid4() returns for this row.
MapRow(trx, uuid) ==
    [id |-> uuid,
     account_num |-> trx.account_number,
     amount |-> trx.amount,
     account_to |-> trx.detail_information,
     narrative |-> <<"ke", trx.subheader>>,
     status_trx |-> trx.status_trx,
     trx_date |-> trx.trx_date,
     trx_time |-> trx.trx_time,
     criteria_anomali |-> trx.criteria_anomali,
     description_anomali |-> trx.description_anomali,
     code_transaction |-> CodeTransaction(trx.id),
     created_by |-> "SYSTEM",
     updated_by |-> "SYSTEM"]

\* mappingData(transactions): one row per transaction, in input order; the
\* i-th row takes the i-th fresh uuid after uuid0
mappingData(transactions, uuid0) ==
    [i \in 1..Len(transactions) |-> MapRow(transactions[i], uuid0 + i)]

\* transformDataSilver(list_trx, list_nasabah, list_criteria): raised = TRUE
\* when a lookup raised StopIteration, else the mapped rows
transformDataSilver(trxs, nasabahs, criterias, uuid0) ==
    LET classified == ClassifyAll(trxs, nasabahs, criterias, 1)
    IN  IF classified.raised THEN [raised |-> TRUE, rows |-> <<>>]
        ELSE LET scanned == ScanGroups(classified.rows,
                                       GroupKeys(classified.rows, 1), criterias, 1)
             IN  IF scanned.raised THEN [raised |-> TRUE, rows |-> <<>>]
                 ELSE [raised |-> FALSE, rows |-> mappingData(scanned.rows, uuid0)]

-----------------------------------------------------------------------------
(* inserDataTransaction *)

\* set(existings_code_trx['code_transaction'])
ExistingCodes(store) == {store[i].code_transaction : i \in 1..Len(store)}

\* mutant of ToInsert: the isin filter is dropped
ToInsertUnfiltered(df_new, existing) == df_new

\* df_new[~df_new['code_transaction'].isin(existings_code_trx_set)]
ToInsert(df_new, existing) ==
    SelectSeq(df_new, LAMBDA row : row.code_transaction \notin existing)

\* mutant of inserDataTransaction: a stored row whose key is offered again is
\* rewritten with the candidate
inserDataTransactionUpsert(candidates, store, io) ==
    LET offer(code) == CHOOSE i \in 1..Len(candidates) :
                            candidates[i].code_transaction = code
        codes == {candidates[i].code_transaction : i \in 1..Len(candidates)}
        rewritten == [i \in 1..Len(store) |->
                        IF store[i].code_transaction \in codes
                        THEN candidates[offer(store[i].code_transaction)]
                        ELSE store[i]]
        df_to_insert == ToInsert(candidates, ExistingCodes(store))
    IN  IF io # "ok" \/ candidates = <<>>
        THEN [store |-> store, returned |-> <<>>]
        ELSE [store |-> rewritten \o df_to_insert, returned |-> candidates]

\* inserDataTransaction(list_trx) on the store, io being what the store does in
\* this call: "ok", "read_error" (read_sql_query raises) or "write_error"
\* (to_sql raises, nothing is appended).  Gives the store after the call and the
\* DataFrame returned.  An empty list_trx gives a DataFrame without columns, on
\* which df_new['code_transaction'] raises KeyError.
inserDataTransaction(candidates, store, io) ==
    LET df_new == candidates
        df_to_insert == ToInsert(df_new, ExistingCodes(store))
    IN  IF io = "read_error" \/ df_new = <<>>
        THEN [store |-> store, returned |-> <<>>]
        ELSE IF df_to_insert = <<>>
        THEN [store |-> store, returned |-> df_new]
        ELSE IF io = "write_error"
        THEN [store |-> store, returned |-> <<>>]
        ELSE [store |-> store \o df_to_insert, returned |-> df_to_insert]

StoreOutcomes == {"ok", "read_error", "write_error"}

-----------------------------------------------------------------------------
(* PipelineMonitor.  None is the string "None"; a pipeline that is None is   *)
(* the record NoPipeline.  Statuses carry the names of the enum members.    *)

None == "None"

NoPipeline == [active |-> FALSE]

Layers == {"bronze", "silver", "gold"}

\* LayerMetrics(layer_name=..., status=LayerStatus.RUNNING, ...)
NewLayerMetrics(layer_name) ==
    [layer_name |-> layer_name, status |-> "RUNNING", records_processed |-> 0,
     records_failed |-> 0, error_message |-> None]

\* PipelineMonitor.start_pipeline
start_pipeline(pipeline_id) ==
    [active |-> TRUE, pipeline_id |-> pipeline_id, status |-> "RUNNING",
     layers |-> [name \in {} |-> NewLayerMetrics(name)],
     total_records_processed |-> 0, total_records_failed |-> 0,
     error_message |-> None]

\* mutant of start_layer: without an active pipeline it returns quietly
start_layer_lenient(pipeline, layer_name) ==
    IF ~pipeline.active THEN [raised |-> FALSE, pipeline |-> pipeline]
    ELSE [raised |-> FALSE,
          pipeline |-> [pipeline EXCEPT !.layers =
                            [name \in DOMAIN @ \cup {layer_name} |->
                                IF name = layer_name THEN NewLayerMetrics(layer_name)
                                ELSE @[name]]]]

\* PipelineMonitor.start_layer: raises RuntimeError without an active pipeline
start_layer(pipeline, layer_name) ==
    IF ~pipeline.active THEN [raised |-> TRUE, pipeline |-> pipeline]
    ELSE [raised |-> FALSE,
          pipeline |-> [pipeline EXCEPT !.layers =
                            [name \in DOMAIN @ \cup {layer_name} |->
                                IF name = layer_name THEN NewLayerMetrics(layer_name)
                                ELSE @[name]]]]

\* mutant of LayerEndStatus: an error message does not fail the layer
LayerEndStatusCompleted(error_message) == "COMPLETED"

\* if error_message: FAILED else COMPLETED (None and "" are falsy)
LayerEndStatus(error_message) ==
    IF error_message # None /\ error_message # "" THEN "FAILED" ELSE "COMPLETED"

\* mutant of complete_layer: the counts of the call are not recorded
complete_layer_uncounted(pipeline, layer_name, records_processed, records_failed, error_message) ==
    IF ~pipeline.active THEN pipeline
    ELSE IF layer_name \notin DOMAIN pipeline.layers THEN pipeline
    ELSE [pipeline EXCEPT !.layers[layer_name] =
            [@ EXCEPT !.status = IF error_message # None /\ error_message # ""
                                 THEN "FAILED" ELSE "COMPLETED",
                      !.error_message =
                          IF error_message # None /\ error_message # ""
                          THEN error_message ELSE @]]

\* mutant of complete_layer: a failed layer keeps no error message
complete_layer_unmessaged(pipeline, layer_name, records_processed, records_failed, error_message) ==
    IF ~pipeline.active THEN pipeline
    ELSE IF layer_name \notin DOMAIN pipeline.layers THEN pipeline
    ELSE [pipeline EXCEPT !.layers[layer_name] =
            [@ EXCEPT !.records_processed = records_processed,
                      !.records_failed = records_failed,
                      !.status = IF error_message # None /\ error_message # ""
                                 THEN "FAILED" ELSE "COMPLETED"]]

\* PipelineMonitor.complete_layer
complete_layer(pipeline, layer_name, records_processed, records_failed, error_message) ==
    IF ~pipeline.active THEN pipeline
    ELSE IF layer_name \notin DOMAIN pipeline.layers THEN pipeline
    ELSE [pipeline EXCEPT !.layers[layer_name] =
            [@ EXCEPT !.records_processed = records_processed,
                      !.records_failed = records_failed,
                      !.status = LayerEndStatus(error_message),
                      !.error_message =
                          IF LayerEndStatus(error_message) = "FAILED"
                          THEN error_message ELSE @]]

\* sum(layer[field] for layer in layers.values()) over the layers named
RECURSIVE SumLayers(_, _, _)
SumLayers(layers, names, field) ==
    IF names = {} THEN 0
    ELSE LET name == CHOOSE n \in names : TRUE
         IN  layers[name][field] + SumLayers(layers, names \ {name}, field)

\* mutant of calculate_totals: the totals are left as they were created
calculate_totals_skipped(pipeline) == pipeline

\* PipelineMetrics.calculate_totals
calculate_totals(pipeline) ==
    [pipeline EXCEPT
        !.total_records_processed =
            SumLayers(pipeline.layers, DOMAIN pipeline.layers, "records_processed"),
        !.total_records_failed =
            SumLayers(pipeline.layers, DOMAIN pipeline.layers, "records_failed")]

HistoryCap == 100

MetricsFileCap == 50

\* mutant of LastN: seq[:n], the newest entries are dropped
FirstN(seq, n) ==
    IF Len(seq) > n THEN SubSeq(seq, 1, n) ELSE seq

\* seq[-n:]
LastN(seq, n) ==
    IF Len(seq) > n THEN SubSeq(seq, Len(seq) - n + 1, Len(seq)) ELSE seq

\* PipelineMonitor.save_metrics: the file after the call; when reading or
\* writing the file raises, the error is logged and the file is as before
save_metrics(file, pipeline, file_ok) ==
    IF ~pipeline.active \/ ~file_ok THEN file
    ELSE LastN(Append(file, pipeline), MetricsFileCap)

\* PipelineMonitor.complete_pipeline: the monitor and the file after the call
complete_pipeline(pipeline, history, file, success, error_message, file_ok) ==
    IF ~pipeline.active
    THEN [current_pipeline |-> pipeline, metrics_history |-> history,
          metrics_file |-> file]
    ELSE LET totalled == calculate_totals(pipeline)
             final == IF success
                      THEN [totalled EXCEPT !.status = "COMPLETED"]
                      ELSE [totalled EXCEPT !.status = "FAILED",
                                            !.error_message = error_message]
         IN  [current_pipeline |-> NoPipeline,
              metrics_history |-> LastN(Append(history, final), HistoryCap),
              metrics_file |-> save_metrics(file, final, file_ok)]

-----------------------------------------------------------------------------
(* transformDataGold and insertDataGold *)

\* the members of a set of numbers in ascending order
RECURSIVE Ascending(_)
Ascending(keys) ==
    IF keys = {} THEN <<>>
    ELSE LET least == CHOOSE k \in keys : \A other \in keys : k <= other
         IN  <<least>> \o Ascending(keys \ {least})

\* prepare_gold on one silver row
GoldRow(row) ==
    [id |-> row.id, account_num |-> row.account_num, trx_date |-> row.trx_date,
     total_trx |-> 1, total_amount |-> row.amount,
     failed_trx |-> IF row.status_trx = "FAILED" THEN 1 ELSE 0,
     anomaly_trx |-> IF row.criteria_anomali # "0" THEN 1 ELSE 0]

\* prepare_gold(df_subset).to_dict(orient='records')
PrepareGold(df_subset) == [i \in 1..Len(df_subset) |-> GoldRow(df_subset[i])]

\* column.sum() over the rows of a date
RECURSIVE SumColumn(_, _, _)
SumColumn(rows, trx_date, column) ==
    IF rows = <<>> THEN 0
    ELSE (IF Head(rows).trx_date = trx_date THEN Head(rows)[column] ELSE 0)
         + SumColumn(Tail(rows), trx_date, column)

\* groupby('trx_date').agg(...) of one subset, one row per date, dates ascending
SummaryDaily(gold_rows, tipe_anomali) ==
    LET dates == Ascending({gold_rows[i].trx_date : i \in 1..Len(gold_rows)})
    IN  [d \in 1..Len(dates) |->
            [trx_date |-> dates[d], tipe_anomali |-> tipe_anomali,
             transaksi_success |-> SumColumn(gold_rows, dates[d], "total_trx"),
             transaksi_failed |-> SumColumn(gold_rows, dates[d], "failed_trx"),
             total_amount_transaksi |-> SumColumn(gold_rows, dates[d], "total_amount"),
             total_transaksi |-> SumColumn(gold_rows, dates[d], "total_trx")]]

\* transformDataGold() on the rows read from silver.transactions
transformDataGold(silver) ==
    LET normal == PrepareGold(SelectSeq(silver, LAMBDA r : r.criteria_anomali = "0"))
        abnormal == PrepareGold(SelectSeq(silver, LAMBDA r : r.criteria_anomali # "0"))
    IN  [normal |-> normal, abnormal |-> abnormal,
         summary |-> SummaryDaily(normal, "Normal") \o SummaryDaily(abnormal, "Abnormal")]

\* the dedup key of a gold row: id, or (trx_date, tipe_anomali) for the summary
GoldKey(row, table_name) ==
    IF table_name = "transactions_summary"
    THEN <<row.trx_date, row.tipe_anomali>>
    ELSE row.id

\* mutant of insertDataGold: the rows are appended without the lookup of the
\* existing keys
insertDataGoldUnfiltered(list_data, table_name, table, io) ==
    IF list_data = <<>> THEN table
    ELSE IF io = "write_error" THEN table
    ELSE table \o list_data

\* insertDataGold(list_data, table_name): the table after the call.  io is
\* what the store does: "ok", "dedup_read_error" (the lookup raises, a warning,
\* the rows are appended unfiltered) or "write_error" (to_sql raises, logged)
insertDataGold(list_data, table_name, table, io) ==
    LET existing == {GoldKey(table[i], table_name) : i \in 1..Len(table)}
        df_new == IF io = "dedup_read_error" THEN list_data
                  ELSE SelectSeq(list_data,
                                 LAMBDA r : GoldKey(r, table_name) \notin existing)
    IN  IF list_data = <<>> THEN table
        ELSE IF io = "write_error" THEN table
        ELSE table \o df_new

GoldOutcomes == {"ok", "silver_read_error", "dedup_read_error", "write_error"}

-----------------------------------------------------------------------------
(* Input data of the transform runs *)

\* bronze.data_nasabah_raw: account_number is the key of the directory
Directory ==
    <<[name |-> "N1", account_number |-> "A1", status |-> "OPENED"],
      [name |-> "N2", account_number |-> "A2", status |-> "CLOSED"],
      [name |-> "N3", account_number |-> "A3", status |-> "BLOCKED"],
      [name |-> "N4", account_number |-> "A4", status |-> "DORMANT"]>>

\* silver.criteria
Catalog ==
    <<[code |-> "0", description |-> "Normal", level |-> "Low"],
      [code |-> "1", description |-> "Repeated transfer, increasing amount",
       level |-> "High"]>>

Amounts == {50000, 60000, 80000}

\* (trx_date, trx_time): 10:00:00, 10:05:00, 10:50:00, 10:59:59 and 11:00:00 of
\* day 0, 10:00:00 of day 1
Stamps == {<<0, 36000>>, <<0, 36300>>, <<0, 39000>>, <<0, 39599>>, <<0, 39600>>,
           <<1, 36000>>}

RawBody(from, to, bank, amount, stamp) ==
    [account_number |-> from, detail_information |-> to,
     subheader |-> [bank |-> bank, name |-> "NAME"],
     amount |-> amount, trx_date |-> stamp[1], trx_time |-> stamp[2]]

\* Transactions of the status-derivation runs: every sender (A9 is in no
\* directory), home-bank and other-bank destinations (X1 is an account of
\* another bank)
StatusBodies ==
    {RawBody(from, to, bank, 50000, <<0, 36000>>) :
        from \in {"A1", "A2", "A3", "A4", "A9"},
        to \in {"A1", "A2", "X1"},
        bank \in {"BNI", "BCA"}}

\* Transactions of the repetition-pattern runs: one sender, two destinations
AnomalyBodies ==
    {RawBody("A1", "X1", "BCA", amount, stamp) : amount \in Amounts, stamp \in Stamps}
    \cup {RawBody("A1", "X2", "BCA", amount, stamp) :
            amount \in {50000, 80000}, stamp \in {<<0, 36000>>, <<0, 36300>>}}

\* A raw transaction; its id is its position in bronze.transactions_raw
WithId(body, id) ==
    [id |-> id,
     account_number |-> body.account_number,
     detail_information |-> body.detail_information,
     subheader |-> body.subheader,
     amount |-> body.amount,
     trx_date |-> body.trx_date,
     trx_time |-> body.trx_time]

-----------------------------------------------------------------------------
(* The transform as a state machine: transactions are ingested into the     *)
(* batch one by one, then the transform runs on the batch                   *)

\* no PipelineMonitor method has been called directly
NoCall ==
    [calls |-> 0, pipelines |-> 0, unsaved |-> {},
     op |-> "none", layer |-> None,
     records_processed |-> 0, records_failed |-> 0, error_message |-> None,
     raised |-> FALSE]

\* no dry run since the last run
NoDryRun == [dry_run |-> FALSE, mode |-> "none", valid |-> FALSE, returned |-> "none"]

InitTransform ==
    /\ list_nasabah = Directory
    /\ list_criteria = Catalog
    /\ list_trx = <<>>
    /\ transformed = [raised |-> FALSE, rows |-> <<>>]
    /\ phase = "input"

InitWriter ==
    /\ silver_transactions = <<>>
    /\ inserted = [called |-> FALSE]
    /\ offered = [ok |-> {}, write_error |-> {}]

\* the pipelines that may run the silver writer at the same time
Writers == {1, 2}

\* no inserDataTransaction call in progress
NoWriterCall == [pc |-> "idle", candidates |-> <<>>, existing |-> {}]

\* get_default_config()["silver"]["anomaly_detection"]
DefaultAnomalyDetection ==
    [enabled |-> TRUE, time_threshold_seconds |-> 3600, amount_threshold |-> 200000]

\* main has not been started in watch mode
NoWatch == [mode |-> "none", dry_run |-> FALSE]

\* nothing has run: default configuration, empty gold tables, idle monitor
InitIdle ==
    /\ gold = [transactions_normal |-> <<>>, transactions_abnormal |-> <<>>,
               transactions_summary |-> <<>>]
    /\ current_pipeline = NoPipeline
    /\ metrics_history = <<>>
    /\ metrics_file = <<>>
    /\ pc = "idle"
    /\ orch = [run |-> 0, pipeline_id |-> 0, list_nasabah |-> <<>>, list_trx |-> <<>>]
    /\ returned = "none"
    /\ uuid_count = 0
    /\ outcome = [layer \in Layers |-> "none"]
    /\ trace = <<>>
    /\ api = NoCall
    /\ runner = NoDryRun
    /\ writers = [w \in Writers |-> NoWriterCall]
    /\ killed = {}
    /\ watch = NoWatch
    /\ anomaly_detection = DefaultAnomalyDetection

\* get_default_config(): every layer enabled
InitDefaultConfig == cfg = [layer \in Layers |-> TRUE]

\* the state in which one component is exercised on its own: nothing
\* transformed or stored yet, the monitor idle, the default configuration
InitComponent ==
    /\ InitTransform
    /\ InitWriter
    /\ InitIdle
    /\ InitDefaultConfig

\* one more row of bronze.transactions_raw
Ingest(bodies, max) ==
    /\ phase = "input"
    /\ Len(list_trx) < max
    /\ \E body \in bodies : list_trx' = Append(list_trx, WithId(body, Len(list_trx) + 1))
    /\ UNCHANGED <<cvars, list_nasabah, list_criteria, transformed, phase, wvars, pvars>>

IngestStatus == Ingest(StatusBodies, MaxStatusBatch)

IngestAnomaly == Ingest(AnomalyBodies, MaxBatch)

Transform ==
    /\ phase = "input"
    /\ transformed' = transformDataSilver(list_trx, list_nasabah, list_criteria, 0)
    /\ phase' = "done"
    /\ UNCHANGED <<cvars, list_nasabah, list_trx, list_criteria, wvars, pvars>>

NextStatus == IngestStatus \/ Transform

NextAnomaly == IngestAnomaly \/ Transform

SpecStatus ==
    InitComponent /\ [][NextStatus]_vars

SpecAnomaly ==
    InitComponent /\ [][NextAnomaly]_vars

-----------------------------------------------------------------------------
(* The transform at the bound of the window, under configurations loaded    *)
(* from a configuration file                                                *)

\* what a configuration file may hold under silver.anomaly_detection
AnomalyDetectionConfigs ==
    [enabled : BOOLEAN, time_threshold_seconds : {60, 3600, 7200},
     amount_threshold : {0, 200000}]

\* Transactions of one group 0, 3599 and 3600 seconds apart
ThresholdBodies ==
    {RawBody("A1", "X1", "BCA", amount, stamp) :
        amount \in {50000, 80000},
        stamp \in {<<0, 36000>>, <<0, 39599>>, <<0, 39600>>}}

\* PipelineConfig.load_config: the configuration is read from the file
LoadConfig ==
    /\ phase = "input"
    /\ list_trx = <<>>
    /\ anomaly_detection = DefaultAnomalyDetection
    /\ \E loaded \in AnomalyDetectionConfigs : anomaly_detection' = loaded
    /\ UNCHANGED <<tvars, wvars, pvars, writers, killed, watch>>

IngestThreshold == Ingest(ThresholdBodies, MaxBatch)

NextThreshold == LoadConfig \/ IngestThreshold \/ Transform

SpecThreshold ==
    InitComponent /\ [][NextThreshold]_vars

-----------------------------------------------------------------------------
(* The silver writer as a state machine: sequential calls with arbitrary    *)
(* candidate sets                                                           *)

\* A classified transaction with raw id k, as the transform hands it to
\* mappingData
ClassifiedWithId(k) ==
    [id |-> k, account_number |-> "A1", detail_information |-> "X1",
     subheader |-> [bank |-> "BCA", name |-> "NAME"], amount |-> 50000,
     trx_date |-> 0, trx_time |-> 36000, status_trx |-> "SUCCESS",
     criteria_anomali |-> "0", description_anomali |-> "Normal"]

\* what uuid.uuid4() may return for the rows of one mapping
UuidDraws == {"u1", "u2"}

\* The candidate rows for a set of raw ids: distinct code_transaction values;
\* draw stands for the uuid4 values of this mapping
Candidates(keys, draw) ==
    LET ids == Ascending(keys)
    IN  [i \in 1..Len(ids) |-> MapRow(ClassifiedWithId(ids[i]), <<draw, ids[i]>>)]

\* to_sql was reached and raised
AppendRaised(candidates, store, io) ==
    /\ io = "write_error"
    /\ \E i \in 1..Len(candidates) :
            candidates[i].code_transaction \notin ExistingCodes(store)

InsertCall ==
    \E keys \in SUBSET (1..MaxKeys), draw \in UuidDraws, io \in StoreOutcomes :
        LET candidates == Candidates(keys, draw)
            call == inserDataTransaction(candidates, silver_transactions, io)
            codes == {candidates[i].code_transaction : i \in 1..Len(candidates)}
        IN  /\ silver_transactions' = call.store
            /\ inserted' = [called |-> TRUE, candidates |-> candidates, io |-> io,
                            before |-> silver_transactions,
                            returned |-> call.returned]
            /\ offered' =
                 IF io = "read_error" THEN offered
                 ELSE IF AppendRaised(candidates, silver_transactions, io)
                 THEN [offered EXCEPT !.write_error = @ \cup codes]
                 ELSE [offered EXCEPT !.ok = @ \cup codes]
            /\ UNCHANGED <<cvars, tvars, pvars>>

NextWriter == InsertCall

SpecWriter ==
    InitComponent /\ [][NextWriter]_vars

-----------------------------------------------------------------------------
(* The silver writer run by two pipelines at once.  inserDataTransaction    *)
(* talks to the store twice, read_sql_query and then to_sql, and holds no   *)
(* lock in between: each of the two is one step, and the steps of the two   *)
(* calls interleave freely.  The store takes whatever rows are appended:    *)
(* no statement of the code declares a constraint on code_transaction.      *)

\* the existence lookup of a call: the keys of the store as it is now
LookupStep(w) ==
    /\ writers[w].pc = "idle"
    /\ \E keys \in SUBSET (1..MaxKeys), io \in {"ok", "read_error"} :
          writers' = [writers EXCEPT ![w] =
                        IF io = "read_error"
                        THEN [pc |-> "returned", candidates |-> Candidates(keys, w),
                              existing |-> {}]
                        ELSE [pc |-> "looked_up", candidates |-> Candidates(keys, w),
                              existing |-> ExistingCodes(silver_transactions)]]
    /\ UNCHANGED <<tvars, wvars, pvars, killed, watch, anomaly_detection>>

\* mutant of RowsToAppend: the filter reads the store again at the append
RowsToAppendRechecked(call, store) ==
    ToInsert(call.candidates, ExistingCodes(store))

\* df_to_insert of a call: filtered on the keys its own lookup returned
RowsToAppend(call, store) == ToInsert(call.candidates, call.existing)

\* the rest of the call: the filter and to_sql
AppendStep(w) ==
    /\ writers[w].pc = "looked_up"
    /\ \E io \in {"ok", "write_error"} :
          LET df_to_insert == RowsToAppend(writers[w], silver_transactions)
          IN  /\ io = "write_error" => df_to_insert # <<>>
              /\ silver_transactions' =
                    IF io = "ok" THEN silver_transactions \o df_to_insert
                    ELSE silver_transactions
    /\ writers' = [writers EXCEPT ![w].pc = "returned"]
    /\ UNCHANGED <<tvars, inserted, offered, pvars, killed, watch,
                   anomaly_detection>>

Lookup == \E w \in Writers : LookupStep(w)

AppendRows == \E w \in Writers : AppendStep(w)

NextRace == Lookup \/ AppendRows

SpecRace == InitComponent /\ [][NextRace]_vars

-----------------------------------------------------------------------------
(* PipelineOrchestrator.run_complete_pipeline as a state machine.  One      *)
(* action per stage; each stage action ends with the test                   *)
(* run_complete_pipeline makes on what the stage returned.                  *)

\* Rows of bronze.transactions_raw in the pipeline runs: two transactions
\* that make a flagged pair, and one whose sender is in no directory
PipelineBodies ==
    {RawBody("A1", "X1", "BCA", 50000, <<1, 36000>>),
     RawBody("A1", "X1", "BCA", 80000, <<1, 36300>>),
     RawBody("A9", "X1", "BCA", 50000, <<1, 36000>>)}

\* The metrics file is taken to be readable and writable: save_metrics does
\* not raise in the runs modelled
FileOutcomes == {TRUE}

\* getDataTransactionRaw: the rows ordered by trx_date, trx_time
getDataTransactionRaw(table) ==
    LET order == SortGroup(table, [i \in 1..Len(table) |-> i])
    IN  [i \in 1..Len(table) |-> table[order[i]]]

BronzeOutcomes == {"ok", "nasabah_error", "trx_error", "raise"}

SilverOutcomes == {"ok", "criteria_error", "read_error", "write_error"}

InitPipeline ==
    /\ InitTransform
    /\ InitWriter
    /\ InitIdle
    /\ cfg \in [Layers -> BOOLEAN]

\* a row is added to bronze.transactions_raw between two runs
IngestBronze ==
    /\ pc = "idle"
    /\ Len(list_trx) < MaxBronze
    /\ \E body \in PipelineBodies :
          list_trx' = Append(list_trx, WithId(body, Len(list_trx) + 1))
    /\ UNCHANGED <<cvars, list_nasabah, list_criteria, transformed, phase, wvars, pvars>>

\* PipelineOrchestrator() and the head of run_complete_pipeline: start_pipeline
StartRun ==
    /\ pc = "idle"
    /\ orch.run < MaxRuns
    /\ orch' = [run |-> orch.run + 1, pipeline_id |-> orch.run + 1,
                list_nasabah |-> <<>>, list_trx |-> <<>>]
    /\ current_pipeline' = start_pipeline(orch.run + 1)
    /\ pc' = "validate"
    /\ returned' = "none"
    /\ outcome' = [layer \in Layers |-> "none"]
    /\ trace' = <<>>
    /\ runner' = NoDryRun
    /\ UNCHANGED <<cvars, tvars, api, wvars, cfg, gold, metrics_history, metrics_file, uuid_count>>

\* mutant of Return: the run returns without finalizing its pipeline
ReturnUnfinalized(pipeline, success, error_message, file_ok) ==
    /\ current_pipeline' = pipeline
    /\ UNCHANGED <<metrics_history, metrics_file>>
    /\ returned' = IF success THEN "True" ELSE "False"
    /\ pc' = "idle"

\* monitor.complete_pipeline(success, error_message); return success
Return(pipeline, success, error_message, file_ok) ==
    LET done == complete_pipeline(pipeline, metrics_history, metrics_file,
                                  success, error_message, file_ok)
    IN  /\ current_pipeline' = done.current_pipeline
        /\ metrics_history' = done.metrics_history
        /\ metrics_file' = done.metrics_file
        /\ returned' = IF success THEN "True" ELSE "False"
        /\ pc' = "idle"

\* mutant of Proceed: after bronze the run goes straight on to gold
ProceedPastSilver(pipeline, next) ==
    /\ current_pipeline' = pipeline
    /\ pc' = IF next = "silver" THEN "gold" ELSE next
    /\ UNCHANGED <<metrics_history, metrics_file, returned>>

\* a stage returned success: on to the next stage
Proceed(pipeline, next) ==
    /\ current_pipeline' = pipeline
    /\ pc' = next
    /\ UNCHANGED <<metrics_history, metrics_file, returned>>

\* history: validate_database_connection returned ok
Validated(ok) ==
    trace' = Append(trace, [event |-> "validated", layer |-> None, ok |-> ok])

\* history: process_<layer>_layer was called and returned its success signal
\* (ok) or its failure signal (~ok)
Staged(layer, ok) ==
    trace' = trace \o <<[event |-> "started", layer |-> layer, ok |-> TRUE],
                        [event |-> "returned", layer |-> layer, ok |-> ok]>>

\* mutant of Validate: the result of the validation is not tested
ValidateUntested ==
    /\ pc = "validate"
    /\ \E valid \in BOOLEAN, file_ok \in FileOutcomes :
        /\ Validated(valid)
        /\ file_ok /\ Proceed(current_pipeline, "bronze")
    /\ UNCHANGED <<cvars, tvars, api, runner, wvars, cfg, gold, orch, uuid_count, outcome>>

\* validate_database_connection and the test on its result
Validate ==
    /\ pc = "validate"
    /\ \E valid \in BOOLEAN, file_ok \in FileOutcomes :
        /\ Validated(valid)
        /\ IF valid
           THEN file_ok /\ Proceed(current_pipeline, "bronze")
           ELSE Return(current_pipeline, FALSE, "Database validation failed", file_ok)
    /\ UNCHANGED <<cvars, tvars, api, runner, wvars, cfg, gold, orch, uuid_count, outcome>>

\* process_bronze_layer and the test on its result
ProcessBronze ==
    /\ pc = "bronze"
    /\ \E io \in BronzeOutcomes, file_ok \in FileOutcomes :
        LET started == start_layer(current_pipeline, "bronze").pipeline
            recorded == outcome' = [outcome EXCEPT !["bronze"] = io]
            list_nasabah_raw == list_nasabah
            list_trx_raw == getDataTransactionRaw(list_trx)
            total_records == Len(list_nasabah_raw) + Len(list_trx_raw)
            error_msg ==
                CASE io = "nasabah_error" ->
                        "Failed to extract nasabah data from bronze layer"
                  [] io = "trx_error" ->
                        "Failed to extract transaction data from bronze layer"
                  [] OTHER -> "Bronze Layer failed"
        IN  IF io = "raise" \/ (cfg["bronze"] /\ io # "ok")
            THEN /\ recorded
                 /\ Staged("bronze", FALSE)
                 /\ Return(complete_layer(started, "bronze", 0, 0, error_msg),
                           FALSE, "Bronze layer processing failed", file_ok)
                 /\ UNCHANGED orch
            ELSE /\ file_ok
                 /\ recorded
                 /\ Staged("bronze", TRUE)
                 /\ IF ~cfg["bronze"]
                    THEN /\ io = "ok"
                         /\ Proceed(complete_layer(started, "bronze", 0, 0, None),
                                    "silver")
                         /\ orch' = [orch EXCEPT !.list_nasabah = <<>>,
                                                 !.list_trx = <<>>]
                    ELSE /\ Proceed(complete_layer(started, "bronze",
                                                   total_records, 0, None), "silver")
                         /\ orch' = [orch EXCEPT !.list_nasabah = list_nasabah_raw,
                                                 !.list_trx = list_trx_raw]
    /\ UNCHANGED <<cvars, tvars, api, runner, wvars, cfg, gold, uuid_count>>

\* process_silver_layer and the test on its result
ProcessSilver ==
    /\ pc = "silver"
    /\ \E io \in SilverOutcomes, file_ok \in FileOutcomes :
        LET started == start_layer(current_pipeline, "silver").pipeline
            list_trx_transform ==
                transformDataSilver(orch.list_trx, orch.list_nasabah,
                                    list_criteria, uuid_count)
            call == inserDataTransaction(list_trx_transform.rows,
                                         silver_transactions, io)
            records_processed == Len(call.returned)
        IN  /\ outcome' = [outcome EXCEPT !["silver"] =
                              IF cfg["silver"] /\ io = "ok" /\ list_trx_transform.raised
                              THEN "raise" ELSE io]
            /\ IF ~cfg["silver"]
               THEN /\ io = "ok" /\ file_ok
                    /\ Staged("silver", TRUE)
                    /\ Proceed(complete_layer(started, "silver", 0, 0, None), "gold")
                    /\ UNCHANGED <<silver_transactions, inserted, uuid_count>>
               ELSE IF io = "criteria_error"
               THEN /\ Staged("silver", FALSE)
                    /\ Return(complete_layer(started, "silver", 0, 0,
                                             "Failed to load criteria data"),
                              FALSE, "Silver layer processing failed", file_ok)
                    /\ UNCHANGED <<silver_transactions, inserted, uuid_count>>
               ELSE IF list_trx_transform.raised
               THEN /\ io = "ok"
                    /\ Staged("silver", FALSE)
                    /\ Return(complete_layer(started, "silver", 0, 0,
                                             "Silver Layer failed"),
                              FALSE, "Silver layer processing failed", file_ok)
                    /\ UNCHANGED <<silver_transactions, inserted, uuid_count>>
               ELSE IF list_trx_transform.rows = <<>>
               THEN /\ io = "ok" /\ file_ok
                    /\ Staged("silver", TRUE)
                    /\ Proceed(complete_layer(started, "silver", 0, 0, None), "gold")
                    /\ UNCHANGED <<silver_transactions, inserted, uuid_count>>
               ELSE /\ file_ok
                    \* to_sql raises only when it is called
                    /\ io = "write_error" =>
                          ToInsert(list_trx_transform.rows,
                                   ExistingCodes(silver_transactions)) # <<>>
                    /\ Staged("silver", TRUE)
                    /\ Proceed(complete_layer(started, "silver", records_processed,
                                              0, None), "gold")
                    /\ silver_transactions' = call.store
                    /\ inserted' = [called |-> TRUE,
                                    candidates |-> list_trx_transform.rows,
                                    io |-> io, before |-> silver_transactions,
                                    returned |-> call.returned]
                    /\ uuid_count' = uuid_count + Len(list_trx_transform.rows)
    /\ UNCHANGED <<cvars, tvars, api, runner, offered, cfg, gold, orch>>

\* process_gold_layer, the test on its result and the successful end of
\* run_complete_pipeline
ProcessGold ==
    /\ pc = "gold"
    /\ \E io \in GoldOutcomes, file_ok \in FileOutcomes :
        LET started == start_layer(current_pipeline, "gold").pipeline
            data == transformDataGold(silver_transactions)
            total_records == Len(data.normal) + Len(data.abnormal) + Len(data.summary)
        IN  /\ outcome' = [outcome EXCEPT !["gold"] = io]
            /\ IF ~cfg["gold"]
               THEN /\ io = "ok"
                    /\ Staged("gold", TRUE)
                    /\ Return(complete_layer(started, "gold", 0, 0, None),
                              TRUE, None, file_ok)
                    /\ UNCHANGED gold
               ELSE IF io = "silver_read_error"
               THEN /\ Staged("gold", FALSE)
                    /\ Return(complete_layer(started, "gold", 0, 0, "Gold Layer failed"),
                              FALSE, "Gold layer processing failed", file_ok)
                    /\ UNCHANGED gold
               ELSE \* insertDataGold reaches the store only with rows to insert
                    /\ io \in {"dedup_read_error", "write_error"} =>
                          silver_transactions # <<>>
                    /\ Staged("gold", TRUE)
                    /\ Return(complete_layer(started, "gold", total_records, 0, None),
                              TRUE, None, file_ok)
                    /\ gold' =
                         [transactions_normal |->
                             insertDataGold(data.normal, "transactions_normal",
                                            gold.transactions_normal, io),
                          transactions_abnormal |->
                             insertDataGold(data.abnormal, "transactions_abnormal",
                                            gold.transactions_abnormal, io),
                          transactions_summary |->
                             insertDataGold(data.summary, "transactions_summary",
                                            gold.transactions_summary, io)]
    /\ UNCHANGED <<cvars, tvars, api, runner, wvars, cfg, orch, uuid_count>>

\* the modes of run_pipeline
Modes == {"complete", "bronze-only", "silver-only", "gold-only"}

\* mutant of DryRun: the dry run starts a pipeline in the monitor
DryRunMonitored ==
    /\ pc = "idle"
    /\ \E mode \in Modes, valid \in BOOLEAN :
          runner' = [dry_run |-> TRUE, mode |-> mode, valid |-> valid,
                     returned |-> IF valid THEN "True" ELSE "False"]
    /\ current_pipeline' = start_pipeline(orch.run + 1)
    /\ UNCHANGED <<cvars, tvars, wvars, cfg, gold, metrics_history,
                   metrics_file, pc, orch, returned, uuid_count, outcome, api,
                   trace>>

\* run_pipeline(mode, dry_run=True) between two runs: a new orchestrator,
\* local to the call, validates the connection; the call returns its answer
DryRun ==
    /\ pc = "idle"
    /\ \E mode \in Modes, valid \in BOOLEAN :
          runner' = [dry_run |-> TRUE, mode |-> mode, valid |-> valid,
                     returned |-> IF valid THEN "True" ELSE "False"]
    /\ UNCHANGED <<cvars, tvars, wvars, cfg, gold, current_pipeline, metrics_history,
                   metrics_file, pc, orch, returned, uuid_count, outcome, api,
                   trace>>

NextPipeline ==
    \/ IngestBronze
    \/ StartRun
    \/ Validate
    \/ ProcessBronze
    \/ ProcessSilver
    \/ ProcessGold

SpecPipeline == InitPipeline /\ [][NextPipeline]_vars

\* the same runs under the default configuration, every layer enabled
SpecGrowth == InitComponent /\ [][NextPipeline]_vars

-----------------------------------------------------------------------------
(* run_pipeline as a state machine: dry runs in every mode between complete *)
(* runs over one bronze snapshot                                            *)

\* bronze.transactions_raw holds a pair of transfers of one sender to one
\* destination, five minutes apart, the amount rising
BronzeSnapshot ==
    <<WithId(RawBody("A1", "X1", "BCA", 50000, <<1, 36000>>), 1),
      WithId(RawBody("A1", "X1", "BCA", 80000, <<1, 36300>>), 2)>>

InitRunner ==
    /\ list_nasabah = Directory
    /\ list_criteria = Catalog
    /\ list_trx = BronzeSnapshot
    /\ transformed = [raised |-> FALSE, rows |-> <<>>]
    /\ phase = "input"
    /\ InitWriter
    /\ InitIdle
    /\ cfg \in [Layers -> BOOLEAN]

NextRunner ==
    \/ DryRun
    \/ StartRun
    \/ Validate
    \/ ProcessBronze
    \/ ProcessSilver
    \/ ProcessGold

SpecRunner == InitRunner /\ [][NextRunner]_vars

-----------------------------------------------------------------------------
(* Runs whose process is terminated in flight, followed by further runs    *)
(* over the same bronze snapshot.  Nothing in the code handles the          *)
(* termination: the monitor, its history and the orchestrator live in the   *)
(* memory of the process and go with it; the rows already sent to the store *)
(* and the metrics file stay.                                               *)

InitRecovery ==
    /\ list_nasabah = Directory
    /\ list_criteria = Catalog
    /\ list_trx = BronzeSnapshot
    /\ transformed = [raised |-> FALSE, rows |-> <<>>]
    /\ phase = "input"
    /\ InitWriter
    /\ InitIdle
    /\ InitDefaultConfig

\* the first n of the three gold tables have had their insertDataGold call
GoldTablesWritten(n) ==
    LET data == transformDataGold(silver_transactions)
    IN  [transactions_normal |->
            IF n >= 1 THEN insertDataGold(data.normal, "transactions_normal",
                                          gold.transactions_normal, "ok")
            ELSE gold.transactions_normal,
         transactions_abnormal |->
            IF n >= 2 THEN insertDataGold(data.abnormal, "transactions_abnormal",
                                          gold.transactions_abnormal, "ok")
            ELSE gold.transactions_abnormal,
         transactions_summary |->
            IF n >= 3 THEN insertDataGold(data.summary, "transactions_summary",
                                          gold.transactions_summary, "ok")
            ELSE gold.transactions_summary]

\* the process is terminated while a run is in flight: in the silver stage
\* with any prefix of the rows of its append in the store, in the gold stage
\* after any of its three inserts, or between two stages
Kill ==
    /\ pc # "idle"
    /\ killed' = killed \cup {orch.pipeline_id}
    /\ IF pc = "silver"
       THEN LET list_trx_transform ==
                    transformDataSilver(orch.list_trx, orch.list_nasabah,
                                        list_criteria, uuid_count)
                df_to_insert == ToInsert(list_trx_transform.rows,
                                         ExistingCodes(silver_transactions))
            IN  /\ \E n \in 0..Len(df_to_insert) :
                      silver_transactions' =
                          silver_transactions \o SubSeq(df_to_insert, 1, n)
                /\ uuid_count' = uuid_count + Len(list_trx_transform.rows)
                /\ UNCHANGED gold
       ELSE IF pc = "gold"
       THEN /\ \E n \in 0..3 : gold' = GoldTablesWritten(n)
            /\ UNCHANGED <<silver_transactions, uuid_count>>
       ELSE UNCHANGED <<silver_transactions, uuid_count, gold>>
    /\ current_pipeline' = NoPipeline
    /\ metrics_history' = <<>>
    /\ pc' = "idle"
    /\ returned' = "none"
    /\ UNCHANGED <<tvars, inserted, offered, writers, watch, anomaly_detection,
                   cfg, metrics_file, orch, outcome, api, runner, trace>>

NextRecovery ==
    \/ StartRun
    \/ Validate
    \/ ProcessBronze
    \/ ProcessSilver
    \/ ProcessGold
    \/ Kill

SpecRecovery == InitRecovery /\ [][NextRecovery]_vars

-----------------------------------------------------------------------------
(* main in watch mode: run_pipeline(mode, dry_run) called again and again   *)
(* with the arguments of the command line.  An iteration in mode complete   *)
(* is a run_complete_pipeline, stage by stage; an iteration in one of the   *)
(* other modes and a dry run are one step each.  The except branches of the *)
(* single-layer modes are left out: validate_database_connection and the    *)
(* process_*_layer methods catch every exception themselves.                *)

\* process_bronze_layer on this pipeline: the pipeline after it and the two
\* lists returned, ok being "neither is None"
BronzeStage(pipeline, io) ==
    LET started == start_layer(pipeline, "bronze").pipeline
        list_nasabah_raw == list_nasabah
        list_trx_raw == getDataTransactionRaw(list_trx)
        total_records == Len(list_nasabah_raw) + Len(list_trx_raw)
        error_msg ==
            CASE io = "nasabah_error" ->
                    "Failed to extract nasabah data from bronze layer"
              [] io = "trx_error" ->
                    "Failed to extract transaction data from bronze layer"
              [] OTHER -> "Bronze Layer failed"
    IN  IF io = "raise" \/ (cfg["bronze"] /\ io # "ok")
        THEN [pipeline |-> complete_layer(started, "bronze", 0, 0, error_msg),
              ok |-> FALSE, list_nasabah |-> <<>>, list_trx |-> <<>>]
        ELSE IF ~cfg["bronze"]
        THEN [pipeline |-> complete_layer(started, "bronze", 0, 0, None),
              ok |-> TRUE, list_nasabah |-> <<>>, list_trx |-> <<>>]
        ELSE [pipeline |-> complete_layer(started, "bronze", total_records, 0, None),
              ok |-> TRUE, list_nasabah |-> list_nasabah_raw,
              list_trx |-> list_trx_raw]

\* process_silver_layer(list_nasabah, list_trx) on this pipeline: the
\* pipeline and the store after it, ok being "the value returned is not None"
SilverStage(pipeline, nasabahs, trxs, io) ==
    LET started == start_layer(pipeline, "silver").pipeline
        list_trx_transform ==
            transformDataSilver(trxs, nasabahs, list_criteria, uuid_count)
        call == inserDataTransaction(list_trx_transform.rows,
                                     silver_transactions, io)
        untouched == [store |-> silver_transactions, inserted |-> inserted,
                      uuid_count |-> uuid_count]
    IN  IF ~cfg["silver"]
        THEN [pipeline |-> complete_layer(started, "silver", 0, 0, None),
              ok |-> TRUE, reached |-> FALSE] @@ untouched
        ELSE IF io = "criteria_error"
        THEN [pipeline |-> complete_layer(started, "silver", 0, 0,
                                          "Failed to load criteria data"),
              ok |-> FALSE, reached |-> FALSE] @@ untouched
        ELSE IF list_trx_transform.raised
        THEN [pipeline |-> complete_layer(started, "silver", 0, 0,
                                          "Silver Layer failed"),
              ok |-> FALSE, reached |-> FALSE] @@ untouched
        ELSE IF list_trx_transform.rows = <<>>
        THEN [pipeline |-> complete_layer(started, "silver", 0, 0, None),
              ok |-> TRUE, reached |-> FALSE] @@ untouched
        ELSE [pipeline |-> complete_layer(started, "silver", Len(call.returned),
                                          0, None),
              ok |-> TRUE, reached |-> TRUE, store |-> call.store,
              inserted |-> [called |-> TRUE,
                            candidates |-> list_trx_transform.rows,
                            io |-> io, before |-> silver_transactions,
                            returned |-> call.returned],
              uuid_count |-> uuid_count + Len(list_trx_transform.rows)]

\* the store fails in process_silver_layer only where it is asked
SilverDraw(nasabahs, trxs, io) ==
    LET list_trx_transform ==
            transformDataSilver(trxs, nasabahs, list_criteria, uuid_count)
    IN  /\ ~cfg["silver"] => io = "ok"
        /\ (io # "criteria_error"
              /\ (list_trx_transform.raised \/ list_trx_transform.rows = <<>>))
            => io = "ok"
        /\ io = "write_error" =>
              ToInsert(list_trx_transform.rows,
                       ExistingCodes(silver_transactions)) # <<>>

\* process_gold_layer on this pipeline: the pipeline and the gold tables
\* after it and the value returned
GoldStage(pipeline, io) ==
    LET started == start_layer(pipeline, "gold").pipeline
        data == transformDataGold(silver_transactions)
        total_records == Len(data.normal) + Len(data.abnormal) + Len(data.summary)
    IN  IF ~cfg["gold"]
        THEN [pipeline |-> complete_layer(started, "gold", 0, 0, None),
              ok |-> TRUE, gold |-> gold]
        ELSE IF io = "silver_read_error"
        THEN [pipeline |-> complete_layer(started, "gold", 0, 0, "Gold Layer failed"),
              ok |-> FALSE, gold |-> gold]
        ELSE [pipeline |-> complete_layer(started, "gold", total_records, 0, None),
              ok |-> TRUE,
              gold |-> [transactions_normal |->
                            insertDataGold(data.normal, "transactions_normal",
                                           gold.transactions_normal, io),
                        transactions_abnormal |->
                            insertDataGold(data.abnormal, "transactions_abnormal",
                                           gold.transactions_abnormal, io),
                        transactions_summary |->
                            insertDataGold(data.summary, "transactions_summary",
                                           gold.transactions_summary, io)]]

\* the store fails in process_gold_layer only where it is asked
GoldDraw(io) ==
    /\ ~cfg["gold"] => io = "ok"
    /\ io \in {"dedup_read_error", "write_error"} => silver_transactions # <<>>

\* history of a stage of a single-layer run
StageEvents(layer, ok) ==
    <<[event |-> "started", layer |-> layer, ok |-> TRUE],
      [event |-> "returned", layer |-> layer, ok |-> ok]>>

\* mutant of Finish: the single-layer run returns without complete_pipeline
FinishUnfinalized(pipeline, success, error_message, file_ok) ==
    /\ current_pipeline' = pipeline
    /\ UNCHANGED <<metrics_history, metrics_file>>
    /\ returned' = IF success THEN "True" ELSE "False"

\* monitor.complete_pipeline(success, error_message) and the return of a
\* single-layer run
Finish(pipeline, success, error_message, file_ok) ==
    LET done == complete_pipeline(pipeline, metrics_history, metrics_file,
                                  success, error_message, file_ok)
    IN  /\ current_pipeline' = done.current_pipeline
        /\ metrics_history' = done.metrics_history
        /\ metrics_file' = done.metrics_file
        /\ returned' = IF success THEN "True" ELSE "False"

\* main parses the command line and enters the watch loop
WatchMain ==
    /\ watch = NoWatch
    /\ pc = "idle"
    /\ \E mode \in Modes, dry_run \in BOOLEAN :
          watch' = [mode |-> mode, dry_run |-> dry_run]
    /\ UNCHANGED <<tvars, wvars, pvars, writers, killed, anomaly_detection>>

\* an iteration with --dry-run
WatchDryRun ==
    /\ watch.mode \in Modes
    /\ watch.dry_run
    /\ pc = "idle"
    /\ \E valid \in BOOLEAN :
          runner' = [dry_run |-> TRUE, mode |-> watch.mode, valid |-> valid,
                     returned |-> IF valid THEN "True" ELSE "False"]
    /\ UNCHANGED <<cvars, tvars, wvars, cfg, gold, current_pipeline,
                   metrics_history, metrics_file, pc, orch, returned,
                   uuid_count, outcome, api, trace>>

\* an iteration in mode complete begins
WatchComplete ==
    /\ watch.mode = "complete"
    /\ ~watch.dry_run
    /\ StartRun

\* the head of an iteration in a single-layer mode: a new orchestrator
SingleLayerRun(mode) ==
    /\ watch.mode = mode
    /\ ~watch.dry_run
    /\ pc = "idle"
    /\ orch.run < MaxRuns
    /\ runner' = NoDryRun
    /\ UNCHANGED <<cvars, tvars, offered, cfg, api, pc>>

\* an iteration in mode bronze-only
WatchBronzeOnly ==
    /\ SingleLayerRun("bronze-only")
    /\ \E valid \in BOOLEAN, io \in BronzeOutcomes, file_ok \in FileOutcomes :
          LET pipeline_id == orch.run + 1
              pipeline == start_pipeline(pipeline_id)
              bronze == BronzeStage(pipeline, io)
          IN  /\ ~valid => io = "ok"
              /\ (~cfg["bronze"]) => io \in {"ok", "raise"}
              /\ orch' = [run |-> pipeline_id, pipeline_id |-> pipeline_id,
                          list_nasabah |-> <<>>, list_trx |-> <<>>]
              /\ IF ~valid
                 THEN /\ Finish(pipeline, FALSE, "Database validation failed", file_ok)
                      /\ outcome' = [layer \in Layers |-> "none"]
                      /\ trace' = <<[event |-> "validated", layer |-> None,
                                     ok |-> FALSE]>>
                 ELSE /\ Finish(bronze.pipeline, bronze.ok,
                                IF bronze.ok THEN None ELSE "Bronze layer failed",
                                file_ok)
                      /\ outcome' = [[layer \in Layers |-> "none"]
                                        EXCEPT !["bronze"] = io]
                      /\ trace' = <<[event |-> "validated", layer |-> None,
                                     ok |-> TRUE]>> \o StageEvents("bronze", bronze.ok)
    /\ UNCHANGED <<silver_transactions, inserted, uuid_count, gold>>

\* an iteration in mode silver-only
WatchSilverOnly ==
    /\ SingleLayerRun("silver-only")
    /\ \E valid \in BOOLEAN, bronze_io \in BronzeOutcomes, io \in SilverOutcomes,
          file_ok \in FileOutcomes :
          LET pipeline_id == orch.run + 1
              pipeline == start_pipeline(pipeline_id)
              bronze == BronzeStage(pipeline, bronze_io)
              silver == SilverStage(bronze.pipeline, bronze.list_nasabah,
                                    bronze.list_trx, io)
              validated(ok) == <<[event |-> "validated", layer |-> None, ok |-> ok]>>
          IN  /\ ~valid => bronze_io = "ok"
              /\ (~cfg["bronze"]) => bronze_io \in {"ok", "raise"}
              /\ (~valid \/ ~bronze.ok) => io = "ok"
              /\ (valid /\ bronze.ok) =>
                    SilverDraw(bronze.list_nasabah, bronze.list_trx, io)
              /\ orch' = [run |-> pipeline_id, pipeline_id |-> pipeline_id,
                          list_nasabah |-> <<>>, list_trx |-> <<>>]
              /\ IF ~valid
                 THEN /\ Finish(pipeline, FALSE, "Database validation failed", file_ok)
                      /\ outcome' = [layer \in Layers |-> "none"]
                      /\ trace' = validated(FALSE)
                      /\ UNCHANGED <<silver_transactions, inserted, uuid_count>>
                 ELSE IF ~bronze.ok
                 THEN /\ Finish(bronze.pipeline, FALSE,
                                "Bronze extraction failed for silver-only mode",
                                file_ok)
                      /\ outcome' = [[layer \in Layers |-> "none"]
                                        EXCEPT !["bronze"] = bronze_io]
                      /\ trace' = validated(TRUE) \o StageEvents("bronze", FALSE)
                      /\ UNCHANGED <<silver_transactions, inserted, uuid_count>>
                 ELSE /\ Finish(silver.pipeline, silver.ok,
                                IF silver.ok THEN None ELSE "Silver layer failed",
                                file_ok)
                      /\ outcome' = [[layer \in Layers |-> "none"]
                                        EXCEPT !["bronze"] = bronze_io,
                                               !["silver"] = io]
                      /\ trace' = validated(TRUE) \o StageEvents("bronze", TRUE)
                                      \o StageEvents("silver", silver.ok)
                      /\ silver_transactions' = silver.store
                      /\ inserted' = silver.inserted
                      /\ uuid_count' = silver.uuid_count
    /\ UNCHANGED gold

\* an iteration in mode gold-only
WatchGoldOnly ==
    /\ SingleLayerRun("gold-only")
    /\ \E valid \in BOOLEAN, io \in GoldOutcomes, file_ok \in FileOutcomes :
          LET pipeline_id == orch.run + 1
              pipeline == start_pipeline(pipeline_id)
              stage == GoldStage(pipeline, io)
          IN  /\ ~valid => io = "ok"
              /\ GoldDraw(io)
              /\ orch' = [run |-> pipeline_id, pipeline_id |-> pipeline_id,
                          list_nasabah |-> <<>>, list_trx |-> <<>>]
              /\ IF ~valid
                 THEN /\ Finish(pipeline, FALSE, "Database validation failed", file_ok)
                      /\ outcome' = [layer \in Layers |-> "none"]
                      /\ trace' = <<[event |-> "validated", layer |-> None,
                                     ok |-> FALSE]>>
                      /\ UNCHANGED gold
                 ELSE /\ Finish(stage.pipeline, stage.ok,
                                IF stage.ok THEN None ELSE "Gold layer failed",
                                file_ok)
                      /\ outcome' = [[layer \in Layers |-> "none"]
                                        EXCEPT !["gold"] = io]
                      /\ trace' = <<[event |-> "validated", layer |-> None,
                                     ok |-> TRUE]>> \o StageEvents("gold", stage.ok)
                      /\ gold' = stage.gold
    /\ UNCHANGED <<silver_transactions, inserted, uuid_count>>

NextWatch ==
    \/ WatchMain
    \/ WatchDryRun
    \/ WatchComplete
    \/ Validate
    \/ ProcessBronze
    \/ ProcessSilver
    \/ ProcessGold
    \/ WatchBronzeOnly
    \/ WatchSilverOnly
    \/ WatchGoldOnly

SpecWatch == InitRunner /\ [][NextWatch]_vars

-----------------------------------------------------------------------------
(* PipelineMonitor as a state machine: its methods called directly, in any  *)
(* order, with any arguments                                                *)

\* (records_processed, records_failed) of a complete_layer call
LayerCounts == {<<0, 0>>, <<2, 1>>}

\* error_message of a complete_layer call: the default None, the empty
\* string, a message
ErrorMessages == {None, "", "boom"}

\* the variables no PipelineMonitor method touches
outside == <<cvars, tvars, wvars, cfg, gold, pc, orch, returned, uuid_count, outcome,
             runner, trace>>

\* history: one more call of a PipelineMonitor method
Called(op, layer, counts, error_message, raised) ==
    api' = [api EXCEPT !.calls = @ + 1, !.op = op, !.layer = layer,
                       !.records_processed = counts[1],
                       !.records_failed = counts[2],
                       !.error_message = error_message, !.raised = raised,
                       !.pipelines = IF op = "start_pipeline" THEN @ + 1 ELSE @]

\* monitor.start_pipeline(pipeline_id) with a fresh pipeline_id
StartPipelineCall ==
    /\ api.calls < MaxMonitorCalls
    /\ current_pipeline' = start_pipeline(api.pipelines + 1)
    /\ Called("start_pipeline", None, <<0, 0>>, None, FALSE)
    /\ UNCHANGED <<metrics_history, metrics_file, outside>>

\* monitor.start_layer(layer_name)
StartLayerCall ==
    /\ api.calls < MaxMonitorCalls
    /\ \E layer_name \in Layers :
          LET call == start_layer(current_pipeline, layer_name)
          IN  /\ current_pipeline' = call.pipeline
              /\ Called("start_layer", layer_name, <<0, 0>>, None, call.raised)
    /\ UNCHANGED <<metrics_history, metrics_file, outside>>

\* monitor.complete_layer(layer_name, records_processed, records_failed,
\* error_message)
CompleteLayerCall ==
    /\ api.calls < MaxMonitorCalls
    /\ \E layer_name \in Layers, counts \in LayerCounts,
          error_message \in ErrorMessages :
          /\ current_pipeline' = complete_layer(current_pipeline, layer_name,
                                                counts[1], counts[2], error_message)
          /\ Called("complete_layer", layer_name, counts, error_message, FALSE)
    /\ UNCHANGED <<metrics_history, metrics_file, outside>>

\* monitor.complete_pipeline(success, error_message)
CompletePipelineCall ==
    /\ api.calls < MaxMonitorCalls
    /\ \E success \in BOOLEAN, file_ok \in FileOutcomes :
          LET error_message == IF success THEN None ELSE "boom"
              done == complete_pipeline(current_pipeline, metrics_history,
                                        metrics_file, success, error_message,
                                        file_ok)
          IN  /\ current_pipeline' = done.current_pipeline
              /\ metrics_history' = done.metrics_history
              /\ metrics_file' = done.metrics_file
              /\ Called("complete_pipeline", None, <<0, 0>>, error_message, FALSE)
    /\ UNCHANGED outside

NextMonitor ==
    \/ StartPipelineCall
    \/ StartLayerCall
    \/ CompleteLayerCall
    \/ CompletePipelineCall

SpecMonitor == InitComponent /\ [][NextMonitor]_vars

-----------------------------------------------------------------------------
(* Retention: many pipelines started and finalized one after the other, as  *)
(* one process does in a long watch loop.                                   *)

\* the runs that may go wrong (the run fails, or reading or writing the
\* metrics file raises): one that both caps evict, one that only the cap of
\* the file evicts, one among the newest; every other run succeeds
UnreliableRuns == {1, 60, 100}

\* monitor.start_pipeline(pipeline_id) of the next run
RetainedStart ==
    /\ ~current_pipeline.active
    /\ api.pipelines < MaxFinalized
    /\ current_pipeline' = start_pipeline(api.pipelines + 1)
    /\ Called("start_pipeline", None, <<0, 0>>, None, FALSE)
    /\ UNCHANGED <<metrics_history, metrics_file, outside>>

\* monitor.complete_pipeline(success, error_message) of the run
RetainedComplete ==
    /\ current_pipeline.active
    /\ \E success \in BOOLEAN, file_ok \in BOOLEAN :
          LET error_message == IF success THEN None ELSE "boom"
              regular == success /\ file_ok
              pipeline_id == current_pipeline.pipeline_id
              done == complete_pipeline(current_pipeline, metrics_history,
                                        metrics_file, success, error_message,
                                        file_ok)
          IN  /\ ~regular => pipeline_id \in UnreliableRuns
              /\ current_pipeline' = done.current_pipeline
              /\ metrics_history' = done.metrics_history
              /\ metrics_file' = done.metrics_file
              /\ api' = [api EXCEPT
                            !.calls = @ + 1, !.op = "complete_pipeline",
                            !.error_message = error_message,
                            !.unsaved = IF file_ok THEN @
                                        ELSE @ \cup {pipeline_id}]
    /\ UNCHANGED outside

NextRetention == RetainedStart \/ RetainedComplete

SpecRetention == InitComponent /\ [][NextRetention]_vars

-----------------------------------------------------------------------------
(* Vocabulary of the properties of the transform.  The output rows are in  *)
(* input order, so row i of the result is transaction i of the batch.       *)

TransformReturned == phase = "done" /\ ~transformed.raised

Positions == 1..Len(list_trx)

\* the status of the customer an account number resolves to, "ABSENT" if none
CustomerStatus(account) ==
    IF \E n \in 1..Len(list_nasabah) : list_nasabah[n].account_number = account
    THEN list_nasabah[CHOOSE n \in 1..Len(list_nasabah) :
                        list_nasabah[n].account_number = account].status
    ELSE "ABSENT"

\* the part of the subheader before " - "
DestinationBank(trx) == trx.subheader.bank

SameGroup(i, j) ==
    /\ list_trx[i].account_number = list_trx[j].account_number
    /\ list_trx[i].detail_information = list_trx[j].detail_information

Instant(i) == list_trx[i].trx_date * 86400 + list_trx[i].trx_time

\* i comes before j in the time order of their group: by (trx_date, trx_time),
\* transactions of the same instant in input order
Before(i, j) ==
    /\ SameGroup(i, j)
    /\ \/ list_trx[i].trx_date < list_trx[j].trx_date
       \/ /\ list_trx[i].trx_date = list_trx[j].trx_date
          /\ list_trx[i].trx_time < list_trx[j].trx_time
       \/ /\ list_trx[i].trx_date = list_trx[j].trx_date
          /\ list_trx[i].trx_time = list_trx[j].trx_time
          /\ i < j

\* j is the next transaction after i in the time order of their group
Adjacent(i, j) ==
    /\ Before(i, j)
    /\ ~\E k \in Positions : Before(i, k) /\ Before(k, j)

Flagged(i) == transformed.rows[i].criteria_anomali = "1"

\* i then j is a qualifying pair: less than 3600 seconds apart, amount rising
Qualifies(i, j) ==
    /\ Instant(j) - Instant(i) < 3600
    /\ list_trx[j].amount > list_trx[i].amount

-----------------------------------------------------------------------------
(* C1: every transaction to a home-bank (BNI) destination whose destination *)
(* account resolves to a CLOSED customer gets status_trx = FAILED, even     *)
(* when the sender is OPENED.                                               *)
C1_ClosedHomeDestinationFails ==
    TransformReturned =>
        \A i \in Positions :
            (/\ DestinationBank(list_trx[i]) = "BNI"
             /\ CustomerStatus(list_trx[i].detail_information) = "CLOSED")
            => transformed.rows[i].status_trx = "FAILED"

-----------------------------------------------------------------------------
(* C5: every transaction whose sender resolves to a customer that is        *)
(* neither OPENED nor BLOCKED gets status_trx = FAILED, whatever the        *)
(* destination bank and account.                                            *)
C5_UnservableSenderFails ==
    TransformReturned =>
        \A i \in Positions :
            CustomerStatus(list_trx[i].account_number) \notin {"OPENED", "BLOCKED", "ABSENT"}
            => transformed.rows[i].status_trx = "FAILED"

\* a CLOSED sender and a sender of another unservable status, one to the home
\* bank and one to another bank, both FAILED
C5_Witness ==
    /\ TransformReturned
    /\ \E i, j \in Positions :
        /\ CustomerStatus(list_trx[i].account_number) = "CLOSED"
        /\ DestinationBank(list_trx[i]) = "BNI"
        /\ CustomerStatus(list_trx[i].detail_information) = "OPENED"
        /\ transformed.rows[i].status_trx = "FAILED"
        /\ CustomerStatus(list_trx[j].account_number) = "DORMANT"
        /\ DestinationBank(list_trx[j]) = "BCA"
        /\ transformed.rows[j].status_trx = "FAILED"

-----------------------------------------------------------------------------
(* C2 as stated: any two transactions of one group, adjacent in time order  *)
(* or not, less than 3600 seconds apart, the later with the strictly        *)
(* greater amount, are both flagged "1".                                    *)
C2_AnyPairFlagged ==
    TransformReturned =>
        \A i, j \in Positions :
            (SameGroup(i, j) /\ Instant(i) < Instant(j) /\ Qualifies(i, j))
            => Flagged(i) /\ Flagged(j)

(* C2 as amended: two transactions of one group that are adjacent in the    *)
(* group's time order, less than 3600 seconds apart, the later with the     *)
(* strictly greater amount, are both flagged "1".                           *)
C2_AdjacentPairFlagged ==
    TransformReturned =>
        \A i, j \in Positions :
            (Adjacent(i, j) /\ Qualifies(i, j)) => Flagged(i) /\ Flagged(j)

\* a qualifying adjacent pair that the input gives in reverse time order
C2_Witness ==
    /\ TransformReturned
    /\ \E i, j \in Positions :
        /\ Adjacent(i, j) /\ Qualifies(i, j) /\ j < i
        /\ Flagged(i) /\ Flagged(j)

-----------------------------------------------------------------------------
(* C3: a transaction is flagged "1" exactly when it is a member of an       *)
(* adjacent pair of its sorted group that is inside the window with a       *)
(* strictly greater later amount, and "0" otherwise; amounts 50000, 80000,  *)
(* 60000 at 10:00:00, 10:05:00, 10:50:00 give "1", "1", "0".                *)
InQualifyingPair(i) ==
    \E j \in Positions :
        \/ Adjacent(i, j) /\ Qualifies(i, j)
        \/ Adjacent(j, i) /\ Qualifies(j, i)

IsScenario ==
    /\ Len(list_trx) = 3
    /\ \A i \in Positions : list_trx[i].account_number = "A1"
    /\ \A i \in Positions : list_trx[i].detail_information = "X1"
    /\ <<list_trx[1].amount, list_trx[2].amount, list_trx[3].amount>>
         = <<50000, 80000, 60000>>
    /\ \A i \in Positions : list_trx[i].trx_date = 0
    /\ <<list_trx[1].trx_time, list_trx[2].trx_time, list_trx[3].trx_time>>
         = <<36000, 36300, 39000>>

C3_FlagIffInQualifyingPair ==
    TransformReturned =>
        /\ \A i \in Positions :
            transformed.rows[i].criteria_anomali
                = IF InQualifyingPair(i) THEN "1" ELSE "0"
        /\ IsScenario =>
            <<transformed.rows[1].criteria_anomali,
              transformed.rows[2].criteria_anomali,
              transformed.rows[3].criteria_anomali>> = <<"1", "1", "0">>

C3_Witness ==
    /\ TransformReturned
    /\ IsScenario
    /\ Flagged(1) /\ Flagged(2) /\ ~Flagged(3)

-----------------------------------------------------------------------------
(* C4: a transaction whose neighbours in the time order of its group are    *)
(* all more than 3600 seconds away keeps criteria_anomali = "0", whatever   *)
(* the order of the amounts.                                                *)
C4_FarPairsNeverFlag ==
    TransformReturned =>
        \A i \in Positions :
            (\A j \in Positions :
                /\ Adjacent(i, j) => Instant(j) - Instant(i) > 3600
                /\ Adjacent(j, i) => Instant(i) - Instant(j) > 3600)
            => transformed.rows[i].criteria_anomali = "0"

\* two transactions of one group more than 3600 seconds apart, the later with
\* the greater amount, neither flagged
C4_Witness ==
    /\ TransformReturned
    /\ \E i, j \in Positions :
        /\ Adjacent(i, j)
        /\ Instant(j) - Instant(i) > 3600
        /\ list_trx[j].amount > list_trx[i].amount
        /\ ~Flagged(i) /\ ~Flagged(j)

-----------------------------------------------------------------------------
(* Vocabulary of the properties of the silver writer *)

NoDuplicateCodes ==
    \A i, j \in 1..Len(silver_transactions) :
        silver_transactions[i].code_transaction
            = silver_transactions[j].code_transaction => i = j

Stored(code) == code \in ExistingCodes(silver_transactions)

CandidateCodes ==
    {inserted.candidates[i].code_transaction : i \in 1..Len(inserted.candidates)}

\* the rows the last call appended to the store
Appended ==
    SubSeq(silver_transactions, Len(inserted.before) + 1, Len(silver_transactions))

\* the last call left every earlier row in place
KeepsEarlierRows ==
    /\ Len(inserted.before) <= Len(silver_transactions)
    /\ SubSeq(silver_transactions, 1, Len(inserted.before)) = inserted.before

-----------------------------------------------------------------------------
-----------------------------------------------------------------------------
(* C7: inserDataTransaction returns exactly the rows this call appended:    *)
(* every returned row's code_transaction was absent before the call, and    *)
(* when all candidate keys exist already the returned set is empty.         *)
C7_ReturnsAppendedRows ==
    inserted.called =>
        /\ inserted.returned = Appended
        /\ \A i \in 1..Len(inserted.returned) :
            inserted.returned[i].code_transaction \notin ExistingCodes(inserted.before)
        /\ CandidateCodes \subseteq ExistingCodes(inserted.before)
            => inserted.returned = <<>>

-----------------------------------------------------------------------------
(* Vocabulary of the properties of the pipeline runs *)

\* run_complete_pipeline has returned and no later run has started
RunReturned == pc = "idle" /\ returned # "none"

\* the record the last complete_pipeline appended to the history
LastRecord == metrics_history[Len(metrics_history)]

HasLayer(record, layer) == layer \in DOMAIN record.layers

\* the count a record holds for a layer, 0 for a layer it has no metrics of
LayerCount(record, layer, field) ==
    IF HasLayer(record, layer) THEN record.layers[layer][field] ELSE 0

GoldIsEmpty ==
    /\ gold.transactions_normal = <<>>
    /\ gold.transactions_abnormal = <<>>
    /\ gold.transactions_summary = <<>>

-----------------------------------------------------------------------------
(* C8: with the gold layer disabled and the other stages succeeding,        *)
(* process_gold_layer writes no gold row and returns success, the gold      *)
(* LayerMetrics of the run ends SKIPPED with records_processed = 0, and the *)
(* pipeline record ends COMPLETED.                                          *)
C8_DisabledGoldIsSkipped ==
    (RunReturned /\ ~cfg["gold"] /\ outcome["gold"] # "none") =>
        /\ GoldIsEmpty
        /\ returned = "True"
        /\ LastRecord.pipeline_id = orch.pipeline_id
        /\ LastRecord.status = "COMPLETED"
        /\ HasLayer(LastRecord, "gold")
        /\ LastRecord.layers["gold"].records_processed = 0
        /\ LastRecord.layers["gold"].status = "SKIPPED"

-----------------------------------------------------------------------------
(* C9: when the bronze stage fails (a bronze read returns the failure value *)
(* or the stage raises), the finalized record has bronze FAILED, no         *)
(* LayerMetrics for silver and gold, pipeline status FAILED, and the call   *)
(* returns False.                                                           *)
BronzeFailed == outcome["bronze"] \in {"nasabah_error", "trx_error", "raise"}

C9_BronzeFailureFailsRun ==
    (RunReturned /\ BronzeFailed) =>
        /\ returned = "False"
        /\ LastRecord.pipeline_id = orch.pipeline_id
        /\ LastRecord.status = "FAILED"
        /\ HasLayer(LastRecord, "bronze")
        /\ LastRecord.layers["bronze"].status = "FAILED"
        /\ ~HasLayer(LastRecord, "silver")
        /\ ~HasLayer(LastRecord, "gold")

\* a run whose transaction read failed, after a run that went through silver
\* and gold
C9_Witness ==
    /\ RunReturned
    /\ outcome["bronze"] = "trx_error"
    /\ Len(metrics_history) = 2
    /\ HasLayer(metrics_history[1], "gold")
    /\ LastRecord.layers["bronze"].status = "FAILED"
    /\ DOMAIN LastRecord.layers = {"bronze"}
    /\ LastRecord.status = "FAILED"
    /\ returned = "False"

-----------------------------------------------------------------------------
(* C10: every record of the metrics history has total_records_processed and *)
(* total_records_failed equal to the sums of records_processed and          *)
(* records_failed over the layers of its layers map, for successful and     *)
(* failed runs alike.                                                       *)
C10_TotalsAreLayerSums ==
    \A r \in 1..Len(metrics_history) :
        /\ metrics_history[r].total_records_processed
             = LayerCount(metrics_history[r], "bronze", "records_processed")
               + LayerCount(metrics_history[r], "silver", "records_processed")
               + LayerCount(metrics_history[r], "gold", "records_processed")
        /\ metrics_history[r].total_records_failed
             = LayerCount(metrics_history[r], "bronze", "records_failed")
               + LayerCount(metrics_history[r], "silver", "records_failed")
               + LayerCount(metrics_history[r], "gold", "records_failed")

\* a failed run that counted bronze records and a completed run that counted
\* records in all three layers, both in the history
C10_Witness ==
    \E f, c \in 1..Len(metrics_history) :
        /\ metrics_history[f].status = "FAILED"
        /\ metrics_history[f].total_records_processed > 0
        /\ metrics_history[c].status = "COMPLETED"
        /\ \A layer \in Layers : LayerCount(metrics_history[c], layer, "records_processed") > 0
        /\ metrics_history[c].total_records_processed
             > LayerCount(metrics_history[c], "bronze", "records_processed")

-----------------------------------------------------------------------------
(* Vocabulary of the properties of the order of the stages *)

Events == 1..Len(trace)

Started(i, layer) == trace[i].event = "started" /\ trace[i].layer = layer

\* event i is a stage (or validation, for layer None) returning ok
ReturnedAt(i, layer, ok) ==
    /\ trace[i].event \in {"validated", "returned"}
    /\ trace[i].layer = layer
    /\ trace[i].ok = ok

\* event i is validation or a stage returning its failure signal
FailureAt(i) == trace[i].event \in {"validated", "returned"} /\ ~trace[i].ok

\* the stage whose success a stage needs before it starts; validation for bronze
Prerequisite(layer) ==
    CASE layer = "bronze" -> None
      [] layer = "silver" -> "bronze"
      [] layer = "gold" -> "silver"
      [] OTHER -> None

-----------------------------------------------------------------------------
(* C11: in every run the stages start only in the order bronze, silver,     *)
(* gold, each at most once; a stage starts only after the stage before it   *)
(* returned success; once validation or a stage has returned a failure      *)
(* signal no later stage is started in that run.                            *)
C11_StagesInStrictSequence ==
    /\ \A layer \in Layers :
          Cardinality({i \in Events : Started(i, layer)}) <= 1
    /\ \A i \in Events, layer \in Layers :
          Started(i, layer) =>
              /\ \E k \in 1..(i - 1) : ReturnedAt(k, Prerequisite(layer), TRUE)
              /\ \A k \in 1..(i - 1) : ~FailureAt(k)
              /\ \A k \in 1..(i - 1), earlier \in Layers :
                    Started(k, earlier) => earlier = Prerequisite(layer) \/
                                           earlier = Prerequisite(Prerequisite(layer))

\* a second run that started all three stages, gold returning failure, after
\* a first run that stopped at the failure of silver
C11_Witness ==
    /\ RunReturned
    /\ Len(metrics_history) = 2
    /\ DOMAIN metrics_history[1].layers = {"bronze", "silver"}
    /\ metrics_history[1].layers["silver"].status = "FAILED"
    /\ Len(trace) = 7
    /\ Started(2, "bronze") /\ Started(4, "silver") /\ Started(6, "gold")
    /\ ReturnedAt(7, "gold", FALSE)

-----------------------------------------------------------------------------
(* C12: run_complete_pipeline never raises to its caller: an exception that *)
(* reaches the body of a stage is caught by that stage, whose LayerMetrics  *)
(* ends FAILED with a non-empty error_message; the stage returns its        *)
(* failure signal and the run returns False with pipeline status FAILED.    *)

\* the stage body of the layer raised: any exception in bronze, the transform
\* in silver, the read of silver.transactions in gold
StageRaised(layer) ==
    \/ layer \in {"bronze", "silver"} /\ outcome[layer] = "raise"
    \/ layer = "gold" /\ cfg["gold"] /\ outcome["gold"] = "silver_read_error"

-----------------------------------------------------------------------------
(* C13: a connection or query failure at any store I/O boundary inside an   *)
(* enabled stage (the two bronze reads, the criteria read, the silver       *)
(* existing-key read, the silver append, the read of silver by the gold     *)
(* transform, the gold dedup read, the gold append) is surfaced as a stage  *)
(* failure: the stage's LayerMetrics ends FAILED, the run returns failure   *)
(* with pipeline status FAILED, and the stage is not started again.         *)

\* a store operation of the layer's stage failed in the current run
StoreFailed(layer) ==
    /\ cfg[layer]
    /\ outcome[layer] \in
          CASE layer = "bronze" -> {"nasabah_error", "trx_error"}
            [] layer = "silver" -> {"criteria_error", "read_error", "write_error"}
            [] layer = "gold" -> {"silver_read_error", "dedup_read_error", "write_error"}

C13_StoreFailureFailsStage ==
    \A layer \in Layers :
        (RunReturned /\ StoreFailed(layer)) =>
            /\ HasLayer(LastRecord, layer)
            /\ LastRecord.layers[layer].status = "FAILED"
            /\ LastRecord.status = "FAILED"
            /\ returned = "False"
            /\ Cardinality({i \in Events : Started(i, layer)}) = 1

-----------------------------------------------------------------------------
(* C14: when precondition validation fails, run_complete_pipeline aborts    *)
(* before any stage runs: no LayerMetrics is created, no stage reads or     *)
(* writes the store, the pipeline record is finalized FAILED with a         *)
(* descriptive message, and the call returns False.                         *)

ValidationFailed == Len(trace) >= 1 /\ ReturnedAt(1, None, FALSE)

C14_FailedValidationAborts ==
    /\ [](ValidationFailed =>
            /\ RunReturned
            /\ Len(trace) = 1
            /\ \A layer \in Layers : outcome[layer] = "none"
            /\ returned = "False"
            /\ ~current_pipeline.active
            /\ LastRecord.pipeline_id = orch.pipeline_id
            /\ DOMAIN LastRecord.layers = {}
            /\ LastRecord.status = "FAILED"
            /\ LastRecord.error_message = "Database validation failed"
            /\ LastRecord.total_records_processed = 0)
    /\ [][ValidationFailed' =>
            /\ silver_transactions' = silver_transactions
            /\ gold' = gold
            /\ uuid_count' = uuid_count]_vars

\* the validation of a second run fails after a first run has filled the
\* silver and the gold store
C14_Witness ==
    /\ ValidationFailed
    /\ RunReturned
    /\ Len(metrics_history) = 2
    /\ metrics_history[1].status = "COMPLETED"
    /\ silver_transactions # <<>>
    /\ gold.transactions_normal # <<>>
    /\ DOMAIN LastRecord.layers = {}

-----------------------------------------------------------------------------
(* Vocabulary of the properties of the PipelineMonitor methods *)

\* this step is a call of the method op
Calls(op) == api'.calls = api.calls + 1 /\ api'.op = op

\* the monitor has an active pipeline
Active == current_pipeline.active

\* the layers the active pipeline has LayerMetrics of
StartedLayers == IF Active THEN DOMAIN current_pipeline.layers ELSE {}

-----------------------------------------------------------------------------
(* C15: start_layer called while the monitor has no active pipeline (before *)
(* any start_pipeline, or after complete_pipeline has finalized the run)    *)
(* fails with the "no active pipeline" error and leaves the monitor         *)
(* unchanged: no LayerMetrics is created, the history is not modified.      *)
C15_StartLayerNeedsActivePipeline ==
    [][(Calls("start_layer") /\ ~Active) =>
            /\ api'.raised
            /\ current_pipeline' = current_pipeline
            /\ current_pipeline' = NoPipeline
            /\ metrics_history' = metrics_history
            /\ metrics_file' = metrics_file]_vars

\* start_layer has just raised after a run with a layer was finalized
C15_Witness ==
    /\ api.op = "start_layer"
    /\ api.raised
    /\ ~Active
    /\ Len(metrics_history) = 1
    /\ HasLayer(metrics_history[1], "bronze")

-----------------------------------------------------------------------------
(* C16: complete_layer on a started layer of the active pipeline records    *)
(* the given records_processed and records_failed and sets the layer's      *)
(* status to FAILED with that error_message if an error message (a          *)
(* non-empty one: Python tests its truth value) is supplied, to COMPLETED   *)
(* otherwise; the LayerMetrics of the other layers are left unchanged.      *)
C16_CompleteLayerRecordsOutcome ==
    [][(Calls("complete_layer") /\ api'.layer \in StartedLayers) =>
            /\ current_pipeline'.active
            /\ DOMAIN current_pipeline'.layers = DOMAIN current_pipeline.layers
            /\ current_pipeline'.layers[api'.layer].records_processed
                 = api'.records_processed
            /\ current_pipeline'.layers[api'.layer].records_failed
                 = api'.records_failed
            /\ IF api'.error_message \in {None, ""}
               THEN current_pipeline'.layers[api'.layer].status = "COMPLETED"
               ELSE /\ current_pipeline'.layers[api'.layer].status = "FAILED"
                    /\ current_pipeline'.layers[api'.layer].error_message
                         = api'.error_message
            /\ \A other \in DOMAIN current_pipeline.layers \ {api'.layer} :
                  current_pipeline'.layers[other] = current_pipeline.layers[other]
            /\ current_pipeline'.status = current_pipeline.status
            /\ metrics_history' = metrics_history]_vars

\* a layer has just been completed with a message and counts while another
\* layer of the run is still RUNNING
C16_Witness ==
    /\ api.op = "complete_layer"
    /\ api.error_message = "boom"
    /\ api.records_processed = 2
    /\ Active
    /\ StartedLayers = {"bronze", "silver"}
    /\ api.layer = "silver"
    /\ current_pipeline.layers["silver"].status = "FAILED"
    /\ current_pipeline.layers["silver"].records_failed = 1
    /\ current_pipeline.layers["bronze"].status = "RUNNING"

-----------------------------------------------------------------------------
(* C17: every call of run_complete_pipeline, whatever the outcome of        *)
(* validation and of the stages, finalizes its pipeline exactly once: when  *)
(* it returns, the monitor has no active pipeline, the metrics history has  *)
(* grown by exactly one record carrying the run's pipeline_id, and that     *)
(* record is COMPLETED if and only if the call returned True, FAILED        *)
(* otherwise.                                                               *)

\* this step is the return of run_complete_pipeline
Returns == pc # "idle" /\ pc' = "idle"

\* this step is inside a call, or the call of run_complete_pipeline itself
Runs == pc' # "idle"

C17_EveryRunFinalizedOnce ==
    /\ [][Returns =>
            /\ returned' \in {"True", "False"}
            /\ ~current_pipeline'.active
            /\ Len(metrics_history') = Len(metrics_history) + 1
            /\ SubSeq(metrics_history', 1, Len(metrics_history)) = metrics_history
            /\ metrics_history'[Len(metrics_history')].pipeline_id = orch'.pipeline_id
            /\ metrics_history'[Len(metrics_history')].status =
                  IF returned' = "True" THEN "COMPLETED" ELSE "FAILED"]_vars
    /\ [][Runs =>
            /\ metrics_history' = metrics_history
            /\ current_pipeline'.active
            /\ current_pipeline'.pipeline_id = orch'.pipeline_id
            /\ current_pipeline'.status = "RUNNING"]_vars
    /\ [](\A r, q \in 1..Len(metrics_history) :
            metrics_history[r].pipeline_id = metrics_history[q].pipeline_id => r = q)

\* a completed run followed by a failed run, each with its own record
C17_Witness ==
    /\ RunReturned
    /\ returned = "False"
    /\ Len(metrics_history) = 2
    /\ metrics_history[1].status = "COMPLETED"
    /\ metrics_history[2].status = "FAILED"
    /\ metrics_history[1].pipeline_id # metrics_history[2].pipeline_id
    /\ ~current_pipeline.active

-----------------------------------------------------------------------------
(* Vocabulary of the properties of the retention.  The pipelines are        *)
(* numbered in the order they are started, which is the order they are      *)
(* finalized in.                                                            *)

\* the pipeline_id of the runs finalized so far
Finalized == 1..(IF current_pipeline.active THEN api.pipelines - 1 ELSE api.pipelines)

\* the pipeline_id of the finalized runs whose save_metrics succeeded
Saved == Finalized \ api.unsaved

Min(a, b) == IF a < b THEN a ELSE b

\* log holds, oldest first, exactly the newest cap runs of the set runs
HoldsNewest(log, runs, cap) ==
    /\ Len(log) = Min(Cardinality(runs), cap)
    /\ \A i \in 1..(Len(log) - 1) : log[i].pipeline_id < log[i + 1].pipeline_id
    /\ Len(log) > 0 =>
          {log[i].pipeline_id : i \in 1..Len(log)}
             = {id \in runs : id >= log[1].pipeline_id}

\* an entry of the log is the record the history has of the same run
SameRecords ==
    \A j \in 1..Len(metrics_file) :
        metrics_file[j].pipeline_id >= metrics_history[1].pipeline_id =>
            metrics_file[j] \in {metrics_history[i] : i \in 1..Len(metrics_history)}

-----------------------------------------------------------------------------
-----------------------------------------------------------------------------
(* C19: run_pipeline with dry_run = True, for every mode, only validates:   *)
(* it starts no pipeline in the monitor, starts no layer, runs no stage,    *)
(* leaves the metrics history and the metrics log unchanged, writes no row  *)
(* to the silver or the gold store, and returns True exactly when the       *)
(* precondition validation passes.                                          *)

\* this step ends with a dry run as the last call and ingests nothing: it is
\* a dry run
DryRunStep == runner'.dry_run /\ list_trx' = list_trx

C19_DryRunOnlyValidates ==
    [][DryRunStep =>
            /\ runner'.mode \in Modes
            /\ runner'.returned = (IF runner'.valid THEN "True" ELSE "False")
            /\ ~current_pipeline'.active
            /\ UNCHANGED <<current_pipeline, metrics_history, metrics_file>>
            /\ UNCHANGED <<pc, trace, outcome, orch, returned>>
            /\ UNCHANGED <<silver_transactions, inserted, gold, uuid_count>>]_vars

\* a dry run in gold-only mode has passed after a run that wrote silver and
\* gold rows
C19_Witness ==
    /\ runner.dry_run
    /\ runner.mode = "gold-only"
    /\ runner.returned = "True"
    /\ Len(metrics_history) = 1
    /\ silver_transactions # <<>>
    /\ gold.transactions_summary # <<>>

-----------------------------------------------------------------------------
(* C20: when the existing-key lookup of the silver writer fails, processing *)
(* continues without the dedup filter: the candidate rows are still         *)
(* appended to the silver store and the call does not report an error (it   *)
(* returns the rows, not the empty frame of the error path).                *)
C20_LookupFailureAppendsUnfiltered ==
    (inserted.called /\ inserted.io = "read_error" /\ inserted.candidates # <<>>) =>
        /\ KeepsEarlierRows
        /\ Appended = inserted.candidates
        /\ inserted.returned = inserted.candidates

-----------------------------------------------------------------------------
(* C21: if any single transaction of the batch has a sender account number  *)
(* absent from the customer directory, the whole transform aborts with a    *)
(* lookup failure and returns no row for any transaction of the batch;      *)
(* under the orchestrator nothing is appended to silver in that run, the    *)
(* silver layer ends FAILED, gold is not started and the run returns        *)
(* failure.                                                                 *)

\* the batch process_bronze_layer handed on has a transaction whose sender is
\* not in the directory it handed on
SenderMissing ==
    \E i \in 1..Len(orch.list_trx) :
        \A n \in 1..Len(orch.list_nasabah) :
            orch.list_nasabah[n].account_number # orch.list_trx[i].account_number

\* this step is the silver stage of such a batch, silver enabled
SilverOnMissingSender == pc = "silver" /\ cfg["silver"] /\ SenderMissing

C21_MissingSenderAbortsBatch ==
    /\ [](SenderMissing =>
            LET result == transformDataSilver(orch.list_trx, orch.list_nasabah,
                                              list_criteria, uuid_count)
            IN  result.raised /\ result.rows = <<>>)
    /\ [][SilverOnMissingSender =>
            /\ silver_transactions' = silver_transactions
            /\ gold' = gold
            /\ pc' = "idle"
            /\ returned' = "False"
            /\ metrics_history'[Len(metrics_history')].status = "FAILED"
            /\ metrics_history'[Len(metrics_history')].layers["silver"].status = "FAILED"
            /\ ~HasLayer(metrics_history'[Len(metrics_history')], "gold")]_vars

\* the second transaction of the batch has a sender the directory lacks; the
\* run failed in silver and left the rows of the run before as they were
C21_Witness ==
    /\ RunReturned
    /\ SenderMissing
    /\ Len(orch.list_trx) = 2
    /\ FirstNasabah(orch.list_nasabah, orch.list_trx[1].account_number) # 0
    /\ Len(metrics_history) = 2
    /\ metrics_history[1].status = "COMPLETED"
    /\ Len(silver_transactions) = 1
    /\ LastRecord.layers["silver"].status = "FAILED"
    /\ ~HasLayer(LastRecord, "gold")
    /\ returned = "False"

-----------------------------------------------------------------------------
(* C22: for any sequence of monitor calls within one pipeline run, a        *)
(* layer's status changes only along the edges of the per-layer state       *)
(* machine: it enters RUNNING on start_layer and leaves RUNNING at most      *)
(* once, to COMPLETED, FAILED or SKIPPED; a layer that has reached a        *)
(* terminal status is not changed again, neither by a second complete_layer *)
(* nor by a second start_layer, until the run is finalized.                 *)

TerminalStatuses == {"COMPLETED", "FAILED", "SKIPPED"}

\* the status of a layer of the active pipeline, PENDING before start_layer
StatusOf(pipeline, layer_name) ==
    IF pipeline.active /\ layer_name \in DOMAIN pipeline.layers
    THEN pipeline.layers[layer_name].status
    ELSE "PENDING"

\* the edges of the state machine
LayerEdge(from, to) ==
    \/ from = "PENDING" /\ to = "RUNNING"
    \/ from = "RUNNING" /\ to \in TerminalStatuses

C22_LayerStatusFollowsStateMachine ==
    [][(Active /\ (Calls("start_layer") \/ Calls("complete_layer"))) =>
            \A layer_name \in Layers :
                LET from == StatusOf(current_pipeline, layer_name)
                    to == StatusOf(current_pipeline', layer_name)
                IN  from = to \/ LayerEdge(from, to)]_vars

-----------------------------------------------------------------------------
(* C23: when two pipeline runs execute the silver writer concurrently on    *)
(* overlapping candidate sets and the store has no uniqueness constraint on *)
(* code_transaction, the application-level check does not prevent          *)
(* duplicates: there is an interleaving in which both writers read the      *)
(* existing keys before either appends, and both then append a row with the *)
(* same code_transaction.  Stated on every step: a call appends one row for *)
(* each candidate key its own lookup did not return, whatever the other     *)
(* call has appended since; the witness is the interleaving.                *)

\* the rows of the store with this code_transaction
RowsWithCode(store, code) ==
    Cardinality({i \in 1..Len(store) : store[i].code_transaction = code})

\* this step is to_sql of the call of w returning normally
Appends(w) ==
    /\ writers[w].pc = "looked_up"
    /\ writers'[w].pc = "returned"
    /\ silver_transactions' # silver_transactions

C23_AppendsWhatItsLookupMissed ==
    [][\A w \in Writers : Appends(w) =>
          \A i \in 1..Len(writers[w].candidates) :
              LET code == writers[w].candidates[i].code_transaction
              IN  code \notin writers[w].existing =>
                    RowsWithCode(silver_transactions', code)
                      = RowsWithCode(silver_transactions, code) + 1]_vars

\* both calls looked up an empty store, both have appended, and the store
\* holds two rows with the same code_transaction, one of each call
C23_Witness ==
    /\ \A w \in Writers : writers[w].pc = "returned" /\ writers[w].existing = {}
    /\ Len(silver_transactions) = 2
    /\ silver_transactions[1].code_transaction = silver_transactions[2].code_transaction
    /\ silver_transactions[1].id # silver_transactions[2].id
    /\ \A w \in Writers : Len(writers[w].candidates) = 1

-----------------------------------------------------------------------------
(* C24: if a pipeline run is killed at any point (before, during or after   *)
(* the silver append, with any prefix of its rows already appended) and a   *)
(* later run over the same bronze snapshot completes, then the silver store *)
(* holds exactly one row per raw transaction id (no duplicate              *)
(* code_transaction, none missing), and the killed run has no record in the *)
(* metrics history.                                                         *)

\* a run started after a kill has returned True
CompletedAfterKill ==
    /\ RunReturned
    /\ returned = "True"
    /\ killed # {}
    /\ orch.pipeline_id \notin killed

\* one row of silver.transactions for each row of bronze.transactions_raw
OneRowPerRawId ==
    /\ NoDuplicateCodes
    /\ ExistingCodes(silver_transactions)
         = {CodeTransaction(list_trx[i].id) : i \in 1..Len(list_trx)}

\* neither the history nor the metrics file has a record of a killed run
NoRecordOfKilledRuns ==
    /\ \A i \in 1..Len(metrics_history) : metrics_history[i].pipeline_id \notin killed
    /\ \A i \in 1..Len(metrics_file) : metrics_file[i].pipeline_id \notin killed

C24_RetryAfterKillRestoresSilver ==
    CompletedAfterKill => (OneRowPerRawId /\ NoRecordOfKilledRuns)

\* the same with the store answering the lookup and the append of the later
\* run
C24_RetryWithWorkingStore ==
    (CompletedAfterKill /\ outcome["silver"] = "ok") =>
        (OneRowPerRawId /\ NoRecordOfKilledRuns)

-----------------------------------------------------------------------------
(* C25: in watch mode every iteration is an independent run: it builds a    *)
(* new orchestrator with its own pipeline_id and, when not a dry run, adds  *)
(* exactly one record to the metrics history; the loop goes on to the next  *)
(* iteration whether the previous one reported success or failure; no       *)
(* monitor state other than the metrics history (no active pipeline, no     *)
(* layer metrics) is carried from one iteration into the next.              *)

\* the loop is between two iterations
BetweenIterations == watch.mode \in Modes /\ pc = "idle"

\* the call of run_pipeline that begins an iteration
WatchIteration ==
    \/ WatchDryRun
    \/ WatchComplete
    \/ WatchBronzeOnly
    \/ WatchSilverOnly
    \/ WatchGoldOnly

\* this step builds the orchestrator of an iteration that is not a dry run
BuildsOrchestrator == orch'.run = orch.run + 1

\* this step is the return of an iteration that is not a dry run
IterationReturns ==
    /\ pc' = "idle"
    /\ returned' # "none"
    /\ pc # "idle" \/ BuildsOrchestrator

\* the layers whose stage the iteration has called
LayersCalled(events) ==
    {events[i].layer : i \in {j \in 1..Len(events) : events[j].event = "started"}}

C25_WatchIterationsAreIndependent ==
    /\ [](BetweenIterations =>
            /\ current_pipeline = NoPipeline
            /\ (watch.dry_run \/ orch.run < MaxRuns) => ENABLED WatchIteration)
    /\ [][watch.mode \in Modes =>
            /\ BuildsOrchestrator =>
                  \A i \in 1..Len(metrics_history) :
                      metrics_history[i].pipeline_id # orch'.pipeline_id
            /\ (BuildsOrchestrator /\ pc' # "idle") =>
                  /\ current_pipeline'.pipeline_id = orch'.pipeline_id
                  /\ DOMAIN current_pipeline'.layers = {}
            /\ IterationReturns =>
                  /\ Len(metrics_history') = Len(metrics_history) + 1
                  /\ SubSeq(metrics_history', 1, Len(metrics_history))
                       = metrics_history
                  /\ metrics_history'[Len(metrics_history')].pipeline_id
                       = orch'.pipeline_id
                  /\ DOMAIN metrics_history'[Len(metrics_history')].layers
                       = LayersCalled(trace')
            /\ ~IterationReturns => metrics_history' = metrics_history]_vars

\* a single-layer watch loop went on after an iteration that failed: the
\* history has the record of the failed iteration and, after it, the record
\* of one that completed, each with its own pipeline_id and its own layers
C25_Witness ==
    /\ BetweenIterations
    /\ watch.mode = "silver-only"
    /\ Len(metrics_history) = 2
    /\ metrics_history[1].status = "FAILED"
    /\ DOMAIN metrics_history[1].layers = {"bronze"}
    /\ metrics_history[2].status = "COMPLETED"
    /\ DOMAIN metrics_history[2].layers = {"bronze", "silver"}
    /\ metrics_history[1].pipeline_id # metrics_history[2].pipeline_id
    /\ silver_transactions # <<>>

-----------------------------------------------------------------------------
(* C26: mappingData returns exactly one silver row per classified input     *)
(* transaction, in input order, carrying that transaction's status_trx and  *)
(* criteria_anomali unchanged, with code_transaction = "TRX:" + raw id:     *)
(* distinct raw ids give distinct code_transaction values, and the same raw *)
(* id gives the same code_transaction in every run although the row's id is *)
(* freshly generated each time.                                             *)

\* the classified transactions transformDataSilver hands to mappingData
ClassifiedInput ==
    LET classified == ClassifyAll(list_trx, list_nasabah, list_criteria, 1)
    IN  ScanGroups(classified.rows, GroupKeys(classified.rows, 1),
                   list_criteria, 1).rows

\* the rows of another run over the same input: uuid4 goes on from where the
\* first run left it
MappedAgain == mappingData(ClassifiedInput, Len(transformed.rows))

C26_OneRowPerInputWithStableCode ==
    TransformReturned =>
        LET input == ClassifiedInput
            again == MappedAgain
        IN  /\ transformed.rows = mappingData(input, 0)
            /\ Len(transformed.rows) = Len(input)
            /\ \A i \in 1..Len(input) :
                  /\ transformed.rows[i].code_transaction
                       = CodeTransaction(input[i].id)
                  /\ transformed.rows[i].status_trx = input[i].status_trx
                  /\ transformed.rows[i].criteria_anomali
                       = input[i].criteria_anomali
                  /\ again[i].code_transaction
                       = transformed.rows[i].code_transaction
            /\ \A i, j \in 1..Len(input) :
                  /\ input[i].id # input[j].id =>
                        transformed.rows[i].code_transaction
                           # transformed.rows[j].code_transaction
                  /\ again[i].id # transformed.rows[j].id

\* three transactions were mapped in input order, the first two flagged and
\* the third not
C26_Witness ==
    /\ TransformReturned
    /\ Len(transformed.rows) = 3
    /\ \A i \in 1..3 : transformed.rows[i].code_transaction = CodeTransaction(i)
    /\ transformed.rows[1].criteria_anomali = "1"
    /\ transformed.rows[2].criteria_anomali = "1"
    /\ transformed.rows[3].criteria_anomali = "0"
    /\ transformed.rows[3].amount < transformed.rows[2].amount

-----------------------------------------------------------------------------
(* C27: after any sequence of completed pipeline runs over a bronze         *)
(* snapshot that only grows between runs, every persisted silver row        *)
(* carries the anomaly code the transform assigns to its transaction on the *)
(* latest snapshot: when a newly ingested transaction forms a flagged pair  *)
(* with a transaction persisted by an earlier run, both persisted rows have *)
(* criteria_anomali = "1".                                                  *)

\* the rows the transform gives on the snapshot of the current run
LatestRows ==
    transformDataSilver(orch.list_trx, orch.list_nasabah, list_criteria, 0).rows

\* the anomaly code the transform gives the transaction of this key on the
\* snapshot of the current run
LatestCode(code) ==
    LatestRows[CHOOSE i \in 1..Len(LatestRows) :
                  LatestRows[i].code_transaction = code].criteria_anomali

\* the run has returned True with the store answering every request
CompletedOnWorkingStore ==
    /\ RunReturned
    /\ returned = "True"
    /\ \A layer \in Layers : outcome[layer] = "ok"

C27_PersistedRowsCarryLatestCode ==
    CompletedOnWorkingStore =>
        \A i \in 1..Len(silver_transactions) :
            silver_transactions[i].criteria_anomali
                = LatestCode(silver_transactions[i].code_transaction)

\* As the code has it: a persisted row is never rewritten, and the rows a
\* run appends carry the codes the transform of that run assigned; a row
\* persisted by an earlier run keeps the code of that earlier run.
C27_RowsKeepTheCodeOfTheirRun ==
    [][/\ Len(silver_transactions') >= Len(silver_transactions)
       /\ SubSeq(silver_transactions', 1, Len(silver_transactions))
            = silver_transactions
       /\ \A i \in (Len(silver_transactions) + 1)..Len(silver_transactions') :
            silver_transactions'[i].criteria_anomali
                = LatestCode(silver_transactions'[i].code_transaction)]_vars

\* the second run completed on a snapshot whose two transactions form a
\* flagged pair; the row persisted by the first run still says "0", the row
\* the second run appended says "1"
C27_Witness ==
    /\ CompletedOnWorkingStore
    /\ Len(metrics_history) = 2
    /\ metrics_history[1].status = "COMPLETED"
    /\ Len(silver_transactions) = 2
    /\ \A i \in 1..2 : LatestCode(silver_transactions[i].code_transaction) = "1"
    /\ silver_transactions[1].criteria_anomali = "0"
    /\ silver_transactions[2].criteria_anomali = "1"

-----------------------------------------------------------------------------
(* C28: the classification is a function of the input set: for the same     *)
(* transactions, customers and criteria, every permutation of the input     *)
(* transaction list gives each transaction id the same status_trx and       *)
(* criteria_anomali, including when several transactions of one (sender,    *)
(* destination) group share the same trx_date and trx_time but have         *)
(* different amounts.                                                       *)

\* list_trx with its elements in the order p
Permuted(p) == [i \in Positions |-> list_trx[p[i]]]

\* the transform on the permuted list gives every transaction the status and
\* the anomaly code it has in transformed
SameClassification(p) ==
    LET again == transformDataSilver(Permuted(p), list_nasabah, list_criteria, 0)
    IN  /\ ~again.raised
        /\ \A i \in Positions :
              /\ again.rows[i].code_transaction
                   = transformed.rows[p[i]].code_transaction
              /\ again.rows[i].status_trx = transformed.rows[p[i]].status_trx
              /\ again.rows[i].criteria_anomali
                   = transformed.rows[p[i]].criteria_anomali

C28_ClassificationIgnoresInputOrder ==
    TransformReturned => \A p \in Permutations(Positions) : SameClassification(p)

\* no two transactions of one group at the same instant
NoTies ==
    \A i, j \in Positions :
        (SameGroup(i, j) /\ Instant(i) = Instant(j)) => i = j

\* the same for the batches without ties
C28_OrderMattersOnlyAtTies ==
    (TransformReturned /\ NoTies) =>
        \A p \in Permutations(Positions) : SameClassification(p)

-----------------------------------------------------------------------------
(* C29: the window test is strict: an adjacent pair of one group exactly    *)
(* 3600 seconds apart is not flagged even when the later amount is strictly *)
(* larger, while a pair 3599 seconds apart (or 0 seconds apart) with a      *)
(* strictly larger later amount is flagged; the bound is the constant 3600  *)
(* whatever time_threshold_seconds and amount_threshold are configured.     *)

\* the seconds from i to j
Gap(i, j) == Instant(j) - Instant(i)

\* i then j are neighbours in the time order of their group and the amount
\* rises from i to j
RisingNeighbours(i, j) == Adjacent(i, j) /\ list_trx[j].amount > list_trx[i].amount

C29_WindowIsStrictAt3600 ==
    TransformReturned =>
        \A i, j \in Positions : RisingNeighbours(i, j) =>
            /\ Gap(i, j) <= 3599 => (Flagged(i) /\ Flagged(j))
            /\ Gap(i, j) >= 3600 =>
                  /\ Flagged(i) =>
                        \E k \in Positions : RisingNeighbours(k, i) /\ Gap(k, i) <= 3599
                  /\ Flagged(j) =>
                        \E k \in Positions : RisingNeighbours(j, k) /\ Gap(j, k) <= 3599

\* with a configured bound of 7200 seconds and a configured amount threshold
\* of 0, a rising pair exactly 3600 seconds apart came out unflagged
C29_Witness ==
    /\ TransformReturned
    /\ anomaly_detection.time_threshold_seconds = 7200
    /\ anomaly_detection.amount_threshold = 0
    /\ Len(list_trx) = 2
    /\ RisingNeighbours(1, 2)
    /\ Gap(1, 2) = 3600
    /\ ~Flagged(1)
    /\ ~Flagged(2)

-----------------------------------------------------------------------------
(* C30: after any sequence of gold-stage executions over a silver store     *)
(* that only grows (dedup lookups succeeding), gold.transactions_normal and *)
(* gold.transactions_abnormal each contain at most one row per id and       *)
(* gold.transactions_summary contains at most one row per (trx_date,        *)
(* tipe_anomali), so re-running gold on unchanged silver data inserts       *)
(* nothing.  Stated on every execution: one whose lookups succeed keeps the *)
(* keys of each table unique; one whose lookups and inserts succeed leaves  *)
(* the key of every row it was given in its table; and one that finds them  *)
(* all there leaves the three tables as they are.                           *)

GoldTables == {"transactions_normal", "transactions_abnormal", "transactions_summary"}

\* no two rows of the table have the same key
UniqueGoldKeys(tables, table_name) ==
    \A i, j \in 1..Len(tables[table_name]) :
        GoldKey(tables[table_name][i], table_name)
            = GoldKey(tables[table_name][j], table_name) => i = j

\* the rows transformDataGold gives for a table on the silver store as it is
GoldRowsFor(table_name) ==
    LET data == transformDataGold(silver_transactions)
    IN  CASE table_name = "transactions_normal" -> data.normal
          [] table_name = "transactions_abnormal" -> data.abnormal
          [] OTHER -> data.summary

\* the key of every row the gold stage would offer is in its table
GoldHoldsSilver(tables) ==
    \A table_name \in GoldTables :
        \A i \in 1..Len(GoldRowsFor(table_name)) :
            \E j \in 1..Len(tables[table_name]) :
                GoldKey(tables[table_name][j], table_name)
                    = GoldKey(GoldRowsFor(table_name)[i], table_name)

\* this step is process_gold_layer, gold enabled, its read of silver
\* answered
GoldExecuted ==
    /\ pc = "gold"
    /\ pc' = "idle"
    /\ cfg["gold"]
    /\ outcome'["gold"] # "silver_read_error"

C30_GoldKeysStayUnique ==
    [][GoldExecuted =>
         /\ outcome'["gold"] # "dedup_read_error" =>
               \A table_name \in GoldTables :
                   UniqueGoldKeys(gold, table_name) => UniqueGoldKeys(gold', table_name)
         /\ outcome'["gold"] = "ok" => GoldHoldsSilver(gold')
         /\ (outcome'["gold"] # "dedup_read_error" /\ GoldHoldsSilver(gold)) =>
               gold' = gold]_vars

\* the second run found in silver the two rows the first had left, both
\* flagged: its gold stage was given the same three rows as the first and
\* inserted none, each table holds one row per key
C30_Witness ==
    /\ RunReturned
    /\ Len(metrics_history) = 2
    /\ \A r \in 1..2 : /\ metrics_history[r].status = "COMPLETED"
                       /\ metrics_history[r].layers["gold"].records_processed = 3
    /\ metrics_history[2].layers["silver"].records_processed = 2
    /\ outcome["gold"] = "ok"
    /\ Len(silver_transactions) = 2
    /\ Len(gold.transactions_abnormal) = 2
    /\ Len(gold.transactions_summary) = 1
    /\ \A table_name \in GoldTables : UniqueGoldKeys(gold, table_name)

====
